---- MODULE Spec2Model ----
(***************************************************************************)
(* LocatorLabs MCP: the element extractor, the locator synthesizers, the   *)
(* reliability ranker, the element matcher, the locator validator and the  *)
(* analyze_page / get_locators tool handlers.                              *)
(*                                                                         *)
(* A JavaScript string is a sequence of one-character strings; an absent   *)
(* (undefined) optional attribute is the empty sequence, which is what the *)
(* extractor's `x || undefined` makes of an empty string.                  *)
(***************************************************************************)
EXTENDS Integers, Sequences, FiniteSets, TLC

VARIABLES
  page,     \* the document the shared page shows: the children of <body>, in document order
  res,      \* the value the last operation returned (with the locals the claims speak about)
  session   \* the BrowserManager, the tool singletons and the tool calls in flight

vars == <<page, res, session>>

----------------------------------------------------------------------------
(* Program constants                                                       *)

MAX_TEXT_LENGTH == 100
MAX_LOCATORS == 10
MAX_ELEMENTS == 50
MAX_LOCATORS_PER_ELEMENT == 5
ENGINE_TEXT_LENGTH == 50

----------------------------------------------------------------------------
(* Bounds of the model                                                     *)

\* the largest number of handles the driver reports for one locator
MaxMatchCount == 3
\* the number of nodes of the longest generated document
MaxPageSize == 77
\* the number of tool calls the server can have in flight
MaxInFlight == 2
\* the number of requests the server takes up in one run
MaxRequests == 2
\* the number of steps of a test
MaxSteps == 2
\* the number of properties of a page object
MaxProperties == 4

----------------------------------------------------------------------------
(* Strings                                                                 *)

UpperChars == <<"A","B","C","D","E","F","G","H","I","J","K","L","M",
                "N","O","P","Q","R","S","T","U","V","W","X","Y","Z">>
LowerChars == <<"a","b","c","d","e","f","g","h","i","j","k","l","m",
                "n","o","p","q","r","s","t","u","v","w","x","y","z">>
DigitChars == <<"0","1","2","3","4","5","6","7","8","9">>

Range(f) == {f[i] : i \in DOMAIN f}

\* String.prototype.toLowerCase, one character
LowerChar(c) ==
  IF c \in Range(UpperChars)
    THEN LowerChars[CHOOSE k \in DOMAIN UpperChars : UpperChars[k] = c]
    ELSE c

toLowerCase(s) == [i \in 1..Len(s) |-> LowerChar(s[i])]

\* the characters /\s/ matches, among those the documents use
IsWhitespace(c) == c \in {" ", "\t", "\n"}

\* String.prototype.includes
includes(s, sub) ==
  \E i \in 0..(Len(s) - Len(sub)) : SubSeq(s, i + 1, i + Len(sub)) = sub

startsWith(s, pre) ==
  Len(s) >= Len(pre) /\ SubSeq(s, 1, Len(pre)) = pre

\* String.prototype.substring(0, n)
substring(s, n) == IF Len(s) <= n THEN s ELSE SubSeq(s, 1, n)

RECURSIVE TrimLeft(_)
TrimLeft(s) ==
  IF s /= <<>> /\ IsWhitespace(Head(s)) THEN TrimLeft(Tail(s)) ELSE s

RECURSIVE TrimRight(_)
TrimRight(s) ==
  IF s /= <<>> /\ IsWhitespace(s[Len(s)])
    THEN TrimRight(SubSeq(s, 1, Len(s) - 1)) ELSE s

\* String.prototype.trim
trim(s) == TrimRight(TrimLeft(s))

\* Array.prototype.join
RECURSIVE join(_, _)
join(parts, sep) ==
  IF parts = <<>> THEN <<>>
  ELSE IF Len(parts) = 1 THEN parts[1]
  ELSE parts[1] \o sep \o join(Tail(parts), sep)

\* String.prototype.split(/\s+/): a maximal run of whitespace is one
\* separator; a leading or trailing run leaves an empty token
RECURSIVE SplitWsFrom(_, _, _, _)
SplitWsFrom(s, i, cur, acc) ==
  IF i > Len(s) THEN Append(acc, cur)
  ELSE IF IsWhitespace(s[i])
    THEN IF i > 1 /\ IsWhitespace(s[i - 1])
           THEN SplitWsFrom(s, i + 1, cur, acc)
           ELSE SplitWsFrom(s, i + 1, <<>>, Append(acc, cur))
    ELSE SplitWsFrom(s, i + 1, Append(cur, s[i]), acc)

splitWhitespace(s) == SplitWsFrom(s, 1, <<>>, <<>>)

\* String.prototype.split(" ")[0]: the text before the first space
RECURSIVE FirstSpaceToken(_)
FirstSpaceToken(s) ==
  IF s = <<>> \/ Head(s) = " " THEN <<>>
  ELSE <<Head(s)>> \o FirstSpaceToken(Tail(s))

\* String.prototype.replace(/c/g, rep)
RECURSIVE replaceAll(_, _, _)
replaceAll(s, c, rep) ==
  IF s = <<>> THEN <<>>
  ELSE IF Len(s) = 1 THEN (IF s[1] = c THEN rep ELSE s)
  ELSE LET half == Len(s) \div 2
       IN replaceAll(SubSeq(s, 1, half), c, rep)
            \o replaceAll(SubSeq(s, half + 1, Len(s)), c, rep)

\* Array.prototype.filter(Boolean) on strings: drops the absent ones
RECURSIVE filterPresent(_)
filterPresent(parts) ==
  IF parts = <<>> THEN <<>>
  ELSE (IF Head(parts) = <<>> THEN <<>> ELSE <<Head(parts)>>)
         \o filterPresent(Tail(parts))

\* the decimal text of a natural number, as template literals print it
RECURSIVE Decimal(_)
Decimal(n) ==
  IF n < 10 THEN <<DigitChars[n + 1]>>
  ELSE Decimal(n \div 10) \o <<DigitChars[(n % 10) + 1]>>

\* CSS.escape: identifier characters pass, a leading digit becomes a code
\* point escape, a lone dash and every other character get a backslash
IsIdentChar(c) ==
  c \in Range(UpperChars) \cup Range(LowerChars) \cup Range(DigitChars) \cup {"-", "_"}

CssEscapeChar(s, i) ==
  IF i = 1 /\ s[i] \in Range(DigitChars) THEN <<"\\", "3", s[i], " ">>
  ELSE IF i = 1 /\ s = <<"-">> THEN <<"\\", "-">>
  ELSE IF IsIdentChar(s[i]) THEN <<s[i]>>
  ELSE <<"\\", s[i]>>

RECURSIVE CssEscapeFrom(_, _)
CssEscapeFrom(s, i) ==
  IF i > Len(s) THEN <<>> ELSE CssEscapeChar(s, i) \o CssEscapeFrom(s, i + 1)

CssEscape(s) == CssEscapeFrom(s, 1)

----------------------------------------------------------------------------
(* The document and the element extractor                                  *)

\* a DOM node with no attribute set, rendered 10 by 10
BlankNode ==
  [tagName |-> <<"D", "I", "V">>, id |-> <<>>, name |-> <<>>, className |-> <<>>,
   type |-> <<>>, placeholder |-> <<>>, innerText |-> <<>>,
   ariaLabel |-> <<>>, role |-> <<>>, dataTestid |-> <<>>,
   dataTestId |-> <<>>, dataCy |-> <<>>, title |-> <<>>,
   onclick |-> FALSE, tabindex |-> <<>>, href |-> <<>>, disabled |-> FALSE,
   width |-> 10, height |-> 10, display |-> "block", visibility |-> "visible"]

interactiveSelectors ==
  <<"button", "a", "input", "select", "textarea",
    "[role='button']", "[role='link']", "[role='textbox']",
    "[role='checkbox']", "[role='radio']", "[role='combobox']",
    "[role='menuitem']", "[role='tab']",
    "[onclick]", "[tabindex]:not([tabindex='-1'])">>

\* Element.matches for the selectors of the list
MatchesSelector(n, sel) ==
  CASE sel = "button" -> n.tagName = <<"B", "U", "T", "T", "O", "N">>
    [] sel = "a" -> n.tagName = <<"A">>
    [] sel = "input" -> n.tagName = <<"I", "N", "P", "U", "T">>
    [] sel = "select" -> n.tagName = <<"S", "E", "L", "E", "C", "T">>
    [] sel = "textarea" -> n.tagName = <<"T", "E", "X", "T", "A", "R", "E", "A">>
    [] sel = "[role='button']" -> n.role = <<"b", "u", "t", "t", "o", "n">>
    [] sel = "[role='link']" -> n.role = <<"l", "i", "n", "k">>
    [] sel = "[role='textbox']" -> n.role = <<"t", "e", "x", "t", "b", "o", "x">>
    [] sel = "[role='checkbox']" -> n.role = <<"c", "h", "e", "c", "k", "b", "o", "x">>
    [] sel = "[role='radio']" -> n.role = <<"r", "a", "d", "i", "o">>
    [] sel = "[role='combobox']" -> n.role = <<"c", "o", "m", "b", "o", "b", "o", "x">>
    [] sel = "[role='menuitem']" -> n.role = <<"m", "e", "n", "u", "i", "t", "e", "m">>
    [] sel = "[role='tab']" -> n.role = <<"t", "a", "b">>
    [] sel = "[onclick]" -> n.onclick
    [] sel = "[tabindex]:not([tabindex='-1'])" ->
         n.tabindex /= <<>> /\ n.tabindex /= <<"-", "1">>
    [] sel = "[tabindex]" -> n.tabindex /= <<>>

\* the skip condition of the extractor
IsHidden(n) ==
  \/ n.width = 0
  \/ n.height = 0
  \/ n.display = "none"
  \/ n.visibility = "hidden"

\* a set of node indices in document order, as querySelectorAll lists them
RECURSIVE InDocumentOrder(_)
InDocumentOrder(S) ==
  IF S = {} THEN <<>>
  ELSE LET m == CHOOSE x \in S : \A y \in S : x <= y
       IN <<m>> \o InDocumentOrder(S \ {m})

\* the loops without the `seen` test: a node is pushed once per selector it matches
RECURSIVE CollectPerSelector(_, _, _, _)
CollectPerSelector(doc, k, seen, acc) ==
  IF k > Len(interactiveSelectors) THEN acc
  ELSE LET hits == {i \in 1..Len(doc) :
                      MatchesSelector(doc[i], interactiveSelectors[k])}
           pushed == {i \in hits : ~IsHidden(doc[i])}
       IN CollectPerSelector(doc, k + 1, seen \cup hits, acc \o InDocumentOrder(pushed))

\* the two nested forEach loops: indices of the pushed nodes, in push order
RECURSIVE CollectFrom(_, _, _, _)
CollectFrom(doc, k, seen, acc) ==
  IF k > Len(interactiveSelectors) THEN acc
  ELSE LET hits == {i \in 1..Len(doc) :
                      MatchesSelector(doc[i], interactiveSelectors[k])} \ seen
           pushed == {i \in hits : ~IsHidden(doc[i])}
       IN CollectFrom(doc, k + 1, seen \cup hits, acc \o InDocumentOrder(pushed))

\* getXPath: the id form, or the indexed tag segments from the root
getXPath(doc, i) ==
  IF doc[i].id /= <<>> THEN <<"/", "/", "*", "[", "@", "i", "d", "=", "\"">> \o doc[i].id \o <<"\"", "]">>
  ELSE LET index == 1 + Cardinality({j \in 1..(i - 1) : doc[j].tagName = doc[i].tagName})
       IN <<"/">> \o join(<<<<"h", "t", "m", "l", "[", "1", "]">>, <<"b", "o", "d", "y", "[", "1", "]">>,
                       toLowerCase(doc[i].tagName) \o <<"[">> \o Decimal(index) \o <<"]">>>>, <<"/">>)

\* el.classList: the distinct whitespace-separated tokens of the class attribute
RECURSIVE Distinct(_, _)
Distinct(tokens, acc) ==
  IF tokens = <<>> THEN acc
  ELSE Distinct(Tail(tokens),
                IF Head(tokens) = <<>> \/ Head(tokens) \in Range(acc)
                  THEN acc ELSE Append(acc, Head(tokens)))

classList(n) == Distinct(splitWhitespace(n.className), <<>>)


\* keeps the first two safe classes, escaped (filter, slice(0, 2), map)
RECURSIVE FirstTwoSafe(_, _)
FirstTwoSafe(cs, taken) ==
  IF cs = <<>> \/ taken = 2 THEN <<>>
  ELSE IF ~includes(Head(cs), <<":">>) /\ Len(Head(cs)) < 30
    THEN <<CssEscape(Head(cs))>> \o FirstTwoSafe(Tail(cs), taken + 1)
    ELSE FirstTwoSafe(Tail(cs), taken)

getUniqueSelector(n) ==
  IF n.id /= <<>> THEN <<"#">> \o CssEscape(n.id)
  ELSE LET tag == toLowerCase(n.tagName)
           classes == join(FirstTwoSafe(classList(n), 0), <<".">>)
       IN IF classes /= <<>> THEN tag \o <<".">> \o classes ELSE tag

\* the ElementInfo pushed for node i (href and value are read by no operation here)
ElementInfoOf(doc, i) ==
  LET n == doc[i] IN
  [tagName |-> toLowerCase(n.tagName),
   id |-> n.id,
   name |-> n.name,
   className |-> n.className,
   type |-> n.type,
   placeholder |-> n.placeholder,
   text |-> substring(trim(n.innerText), MAX_TEXT_LENGTH),
   ariaLabel |-> n.ariaLabel,
   role |-> n.role,
   testId |-> IF n.dataTestid /= <<>> THEN n.dataTestid
              ELSE IF n.dataTestId /= <<>> THEN n.dataTestId
              ELSE n.dataCy,
   title |-> n.title,
   xpath |-> getXPath(doc, i),
   selector |-> getUniqueSelector(n)]

\* GetLocatorsTool.getAllElements and AnalyzePageTool.getAllInteractiveElements
getAllElements(doc) ==
  LET order == CollectFrom(doc, 1, {}, <<>>)
  IN [k \in 1..Len(order) |-> ElementInfoOf(doc, order[k])]

----------------------------------------------------------------------------
(* Locator synthesis, dialect A                                            *)

\* GetLocatorsTool.escape and AnalyzePageTool.escape
escape(str) ==
  substring(replaceAll(replaceAll(str, "\\", <<"\\", "\\">>), "'", <<"\\", "'">>),
            MAX_TEXT_LENGTH)

\* LocatorEngine.escape
LocatorEngine_escape(str) ==
  substring(replaceAll(str, "'", <<"\\", "'">>), ENGINE_TEXT_LENGTH)

\* GetLocatorsTool.inferRole and AnalyzePageTool.inferRole; no role is <<>>
inferRole(el) ==
  LET tag == toLowerCase(el.tagName)
      type == toLowerCase(el.type)
      key == IF type = <<>> THEN <<"t", "e", "x", "t">> ELSE type
  IN CASE tag = <<"b", "u", "t", "t", "o", "n">> -> <<"b", "u", "t", "t", "o", "n">>
       [] tag = <<"a">> -> <<"l", "i", "n", "k">>
       [] tag = <<"s", "e", "l", "e", "c", "t">> -> <<"c", "o", "m", "b", "o", "b", "o", "x">>
       [] tag = <<"t", "e", "x", "t", "a", "r", "e", "a">> -> <<"t", "e", "x", "t", "b", "o", "x">>
       [] tag = <<"i", "m", "g">> -> <<"i", "m", "g">>
       [] tag = <<"i", "n", "p", "u", "t">> ->
            (CASE key \in {<<"s", "u", "b", "m", "i", "t">>, <<"b", "u", "t", "t", "o", "n">>} -> <<"b", "u", "t", "t", "o", "n">>
               [] key = <<"c", "h", "e", "c", "k", "b", "o", "x">> -> <<"c", "h", "e", "c", "k", "b", "o", "x">>
               [] key = <<"r", "a", "d", "i", "o">> -> <<"r", "a", "d", "i", "o">>
               [] key \in {<<"t", "e", "x", "t">>, <<"e", "m", "a", "i", "l">>, <<"p", "a", "s", "s", "w", "o", "r", "d">>} -> <<"t", "e", "x", "t", "b", "o", "x">>
               [] key = <<"s", "e", "a", "r", "c", "h">> -> <<"s", "e", "a", "r", "c", "h", "b", "o", "x">>
               [] key = <<"n", "u", "m", "b", "e", "r">> -> <<"s", "p", "i", "n", "b", "u", "t", "t", "o", "n">>
               [] OTHER -> <<"t", "e", "x", "t", "b", "o", "x">>)
       [] OTHER -> <<>>

\* LocatorEngine.inferRole
LocatorEngine_inferRole(el) ==
  LET tag == toLowerCase(el.tagName)
      type == toLowerCase(el.type)
  IN IF tag = <<"b", "u", "t", "t", "o", "n">> \/ type = <<"s", "u", "b", "m", "i", "t">> \/ type = <<"b", "u", "t", "t", "o", "n">> THEN <<"b", "u", "t", "t", "o", "n">>
     ELSE IF tag = <<"a">> THEN <<"l", "i", "n", "k">>
     ELSE IF tag = <<"i", "n", "p", "u", "t">> /\ type = <<"c", "h", "e", "c", "k", "b", "o", "x">> THEN <<"c", "h", "e", "c", "k", "b", "o", "x">>
     ELSE IF tag = <<"i", "n", "p", "u", "t">> /\ type = <<"r", "a", "d", "i", "o">> THEN <<"r", "a", "d", "i", "o">>
     ELSE IF tag = <<"i", "n", "p", "u", "t">> \/ tag = <<"t", "e", "x", "t", "a", "r", "e", "a">> THEN <<"t", "e", "x", "t", "b", "o", "x">>
     ELSE IF tag = <<"s", "e", "l", "e", "c", "t">> THEN <<"c", "o", "m", "b", "o", "b", "o", "x">>
     ELSE IF tag = <<"i", "m", "g">> THEN <<"i", "m", "g">>
     ELSE <<>>

\* a || b || c on optional strings
FirstPresent(a, b, c) == IF a /= <<>> THEN a ELSE IF b /= <<>> THEN b ELSE c

LocatorResult(type, locator, reliability, description) ==
  [type |-> type, locator |-> locator, reliability |-> reliability,
   description |-> description]

\* a test id push that carries the score of the id block
TestIdLocatorsAsId(el, description) ==
  IF el.testId /= <<>>
    THEN <<LocatorResult("testId", <<"g", "e", "t", "B", "y", "T", "e", "s", "t", "I", "d", "(", "'">> \o el.testId \o <<"'", ")">>, 90, description)>>
    ELSE <<>>

\* the pushes the synthesizers share, one operator per numbered block
TestIdLocators(el, description) ==
  IF el.testId /= <<>>
    THEN <<LocatorResult("testId", <<"g", "e", "t", "B", "y", "T", "e", "s", "t", "I", "d", "(", "'">> \o el.testId \o <<"'", ")">>, 98, description)>>
    ELSE <<>>

RoleWithNameLocator(role, name) ==
  LocatorResult("role",
                <<"g", "e", "t", "B", "y", "R", "o", "l", "e", "(", "'">> \o role \o <<"'", ",", " ", "{", " ", "n", "a", "m", "e", ":", " ", "'">> \o name \o <<"'", " ", "}", ")">>,
                95, "Playwright recommended - accessible and stable")

LabelLocators(el, escaped, reliability) ==
  IF el.ariaLabel /= <<>>
    THEN <<LocatorResult("label", <<"g", "e", "t", "B", "y", "L", "a", "b", "e", "l", "(", "'">> \o escaped \o <<"'", ")">>, reliability,
                         "Accessible label-based locator")>>
    ELSE <<>>

\* a placeholder push whose score depends on the element's tag
PlaceholderLocatorsByTag(el, escaped) ==
  IF el.placeholder /= <<>>
    THEN <<LocatorResult("placeholder", <<"g", "e", "t", "B", "y", "P", "l", "a", "c", "e", "h", "o", "l", "d", "e", "r", "(", "'">> \o escaped \o <<"'", ")">>,
                         IF el.tagName = <<"i", "n", "p", "u", "t">> THEN 85 ELSE 80,
                         "Good for form inputs")>>
    ELSE <<>>

PlaceholderLocators(el, escaped) ==
  IF el.placeholder /= <<>>
    THEN <<LocatorResult("placeholder", <<"g", "e", "t", "B", "y", "P", "l", "a", "c", "e", "h", "o", "l", "d", "e", "r", "(", "'">> \o escaped \o <<"'", ")">>, 85,
                         "Good for form inputs")>>
    ELSE <<>>

IdLocators(el) ==
  IF el.id /= <<>>
    THEN <<LocatorResult("id", <<"l", "o", "c", "a", "t", "o", "r", "(", "'", "#">> \o el.id \o <<"'", ")">>, 90,
                         "ID selector - stable if ID is meaningful")>>
    ELSE <<>>

CssLocator(el) ==
  LocatorResult("css", <<"l", "o", "c", "a", "t", "o", "r", "(", "'">> \o el.selector \o <<"'", ")">>, 60,
                "CSS selector - may be brittle")

\* an xpath push that is skipped when the element has an id locator
XPathLocatorsUnlessId(el) ==
  IF el.id /= <<>> THEN <<>>
  ELSE <<LocatorResult("xpath", <<"l", "o", "c", "a", "t", "o", "r", "(", "\"">> \o el.xpath \o <<"\"", ")">>, 40,
                       "XPath - avoid unless necessary")>>

\* the unconditional xpath push that ends the tools' synthesizers
XPathLocators(el) ==
  <<LocatorResult("xpath", <<"l", "o", "c", "a", "t", "o", "r", "(", "\"">> \o el.xpath \o <<"\"", ")">>, 40,
                  "XPath - avoid unless necessary")>>

\* GetLocatorsTool.generateLocators
GetLocatorsTool_generateLocators(el) ==
  LET role == IF el.role /= <<>> THEN el.role ELSE inferRole(el)
      name == FirstPresent(el.ariaLabel, el.text, el.title)
  IN TestIdLocators(el, "Best - explicitly set for testing")
     \o (IF role /= <<>> /\ name /= <<>>
           THEN <<RoleWithNameLocator(role, escape(name))>> ELSE <<>>)
     \o LabelLocators(el, escape(el.ariaLabel), 90)
     \o PlaceholderLocators(el, escape(el.placeholder))
     \o (IF el.text /= <<>> /\ el.tagName \notin {<<"i", "n", "p", "u", "t">>, <<"t", "e", "x", "t", "a", "r", "e", "a">>}
           THEN <<LocatorResult("text", <<"g", "e", "t", "B", "y", "T", "e", "x", "t", "(", "'">> \o escape(el.text) \o <<"'", ")">>, 75,
                                "Text content - may break if text changes")>>
           ELSE <<>>)
     \o IdLocators(el)
     \o (IF el.name /= <<>>
           THEN <<LocatorResult("name", <<"l", "o", "c", "a", "t", "o", "r", "(", "'", "[", "n", "a", "m", "e", "=", "\"">> \o el.name \o <<"\"", "]", "'", ")">>, 80,
                                "Name attribute selector")>>
           ELSE <<>>)
     \o (IF el.selector /= <<>> /\ el.selector /= el.tagName
           THEN <<CssLocator(el)>> ELSE <<>>)
     \o XPathLocators(el)

\* AnalyzePageTool.generateLocators
AnalyzePageTool_generateLocators(el) ==
  LET role == IF el.role /= <<>> THEN el.role ELSE inferRole(el)
      name == FirstPresent(el.ariaLabel, el.text, el.title)
  IN TestIdLocators(el, "Best - explicitly set for testing")
     \o (IF role = <<>> THEN <<>>
         ELSE IF name /= <<>> THEN <<RoleWithNameLocator(role, escape(name))>>
         ELSE <<LocatorResult("role", <<"g", "e", "t", "B", "y", "R", "o", "l", "e", "(", "'">> \o role \o <<"'", ")">>, 70,
                              "Role without name - may match multiple elements")>>)
     \o LabelLocators(el, escape(el.ariaLabel), 90)
     \o PlaceholderLocators(el, escape(el.placeholder))
     \o (IF el.text /= <<>> /\ el.tagName \notin {<<"i", "n", "p", "u", "t">>, <<"t", "e", "x", "t", "a", "r", "e", "a">>}
           THEN <<LocatorResult("text", <<"g", "e", "t", "B", "y", "T", "e", "x", "t", "(", "'">> \o escape(el.text) \o <<"'", ")">>, 75,
                                "Text content - may break if text changes")>>
           ELSE <<>>)
     \o IdLocators(el)
     \o (IF el.selector /= <<>> /\ el.selector /= el.tagName
           THEN <<CssLocator(el)>> ELSE <<>>)
     \o XPathLocators(el)

\* LocatorEngine.generateLocators
LocatorEngine_generateLocators(el) ==
  LET role == IF el.role /= <<>> THEN el.role ELSE LocatorEngine_inferRole(el)
      name == FirstPresent(el.text, el.ariaLabel, el.title)
  IN (IF role /= <<>> /\ name /= <<>>
        THEN <<RoleWithNameLocator(role, LocatorEngine_escape(name))>> ELSE <<>>)
     \o TestIdLocators(el, "Best choice - explicitly set for testing")
     \o PlaceholderLocators(el, LocatorEngine_escape(el.placeholder))
     \o LabelLocators(el, LocatorEngine_escape(el.ariaLabel), 88)
     \o (IF el.text /= <<>> /\ el.tagName /= <<"i", "n", "p", "u", "t">>
           THEN <<LocatorResult("text",
                                <<"g", "e", "t", "B", "y", "T", "e", "x", "t", "(", "'">> \o LocatorEngine_escape(el.text) \o <<"'", ")">>, 75,
                                "Text content based - may break if text changes")>>
           ELSE <<>>)
     \o IdLocators(el)
     \o <<CssLocator(el)>>
     \o <<LocatorResult("xpath", <<"l", "o", "c", "a", "t", "o", "r", "(", "'">> \o el.xpath \o <<"'", ")">>, 40,
                        "XPath - avoid unless necessary")>>

----------------------------------------------------------------------------
(* The reliability ranker                                                  *)

\* an insertion that puts x ahead of its ties (a sort that is not stable)
RECURSIVE InsertBeforeTies(_, _)
InsertBeforeTies(sorted, x) ==
  IF sorted = <<>> THEN <<x>>
  ELSE IF Head(sorted).reliability > x.reliability
    THEN <<Head(sorted)>> \o InsertBeforeTies(Tail(sorted), x)
    ELSE <<x>> \o sorted

\* where the comparator b.reliability - a.reliability puts x among the
\* candidates already placed: behind every candidate it does not beat
RECURSIVE InsertByReliability(_, _)
InsertByReliability(sorted, x) ==
  IF sorted = <<>> THEN <<x>>
  ELSE IF Head(sorted).reliability >= x.reliability
    THEN <<Head(sorted)>> \o InsertByReliability(Tail(sorted), x)
    ELSE <<x>> \o sorted

RECURSIVE SortFrom(_, _, _)
SortFrom(locators, k, sorted) ==
  IF k > Len(locators) THEN sorted
  ELSE SortFrom(locators, k + 1, InsertByReliability(sorted, locators[k]))

\* rankLocators of the three classes: Array.prototype.sort, which is stable
rankLocators(locators) == SortFrom(locators, 1, <<>>)

\* Array.prototype.slice(-n): the last n entries
sliceLast(s, n) == IF Len(s) <= n THEN s ELSE SubSeq(s, Len(s) - n + 1, Len(s))

\* Array.prototype.slice(0, n)
slice(s, n) == IF Len(s) <= n THEN s ELSE SubSeq(s, 1, n)

----------------------------------------------------------------------------
(* Locator synthesis, dialect B                                            *)

SeleniumLocator(javaOpen, pythonOpen, csharpOpen, value) ==
  [java |-> javaOpen \o value \o <<"\"", ")">>,
   python |-> pythonOpen \o value \o <<"\"">>,
   csharp |-> csharpOpen \o value \o <<"\"", ")">>]

\* GetLocatorsTool.generateSeleniumLocators
generateSeleniumLocators(el) ==
  LET firstClass == FirstSpaceToken(el.className)
  IN (IF el.id /= <<>>
        THEN <<SeleniumLocator(<<"B", "y", ".", "i", "d", "(", "\"">>, <<"B", "y", ".", "I", "D", ",", " ", "\"">>, <<"B", "y", ".", "I", "d", "(", "\"">>, el.id)>> ELSE <<>>)
     \o (IF el.name /= <<>>
           THEN <<SeleniumLocator(<<"B", "y", ".", "n", "a", "m", "e", "(", "\"">>, <<"B", "y", ".", "N", "A", "M", "E", ",", " ", "\"">>, <<"B", "y", ".", "N", "a", "m", "e", "(", "\"">>, el.name)>>
           ELSE <<>>)
     \o (IF el.selector /= <<>>
           THEN <<SeleniumLocator(<<"B", "y", ".", "c", "s", "s", "S", "e", "l", "e", "c", "t", "o", "r", "(", "\"">>, <<"B", "y", ".", "C", "S", "S", "_", "S", "E", "L", "E", "C", "T", "O", "R", ",", " ", "\"">>,
                                  <<"B", "y", ".", "C", "s", "s", "S", "e", "l", "e", "c", "t", "o", "r", "(", "\"">>, el.selector)>>
           ELSE <<>>)
     \o (IF el.xpath /= <<>>
           THEN <<SeleniumLocator(<<"B", "y", ".", "x", "p", "a", "t", "h", "(", "\"">>, <<"B", "y", ".", "X", "P", "A", "T", "H", ",", " ", "\"">>, <<"B", "y", ".", "X", "P", "a", "t", "h", "(", "\"">>, el.xpath)>>
           ELSE <<>>)
     \o (IF el.tagName = <<"a">> /\ el.text /= <<>>
           THEN <<SeleniumLocator(<<"B", "y", ".", "l", "i", "n", "k", "T", "e", "x", "t", "(", "\"">>, <<"B", "y", ".", "L", "I", "N", "K", "_", "T", "E", "X", "T", ",", " ", "\"">>, <<"B", "y", ".", "L", "i", "n", "k", "T", "e", "x", "t", "(", "\"">>,
                                  escape(el.text))>>
           ELSE <<>>)
     \o (IF el.className /= <<>> /\ firstClass /= <<>> /\ ~includes(firstClass, <<":">>)
           THEN <<SeleniumLocator(<<"B", "y", ".", "c", "l", "a", "s", "s", "N", "a", "m", "e", "(", "\"">>, <<"B", "y", ".", "C", "L", "A", "S", "S", "_", "N", "A", "M", "E", ",", " ", "\"">>, <<"B", "y", ".", "C", "l", "a", "s", "s", "N", "a", "m", "e", "(", "\"">>,
                                  firstClass)>>
           ELSE <<>>)
     \o <<SeleniumLocator(<<"B", "y", ".", "t", "a", "g", "N", "a", "m", "e", "(", "\"">>, <<"B", "y", ".", "T", "A", "G", "_", "N", "A", "M", "E", ",", " ", "\"">>, <<"B", "y", ".", "T", "a", "g", "N", "a", "m", "e", "(", "\"">>, el.tagName)>>

----------------------------------------------------------------------------
(* The element matcher                                                     *)

\* a split that drops the empty pieces
keywordsOfWords(description) ==
  LET pieces == splitWhitespace(toLowerCase(description))
      kept == {i \in DOMAIN pieces : pieces[i] /= <<>>}
  IN [k \in 1..Cardinality(kept) |->
       pieces[CHOOSE i \in kept : Cardinality({j \in kept : j <= i}) = k]]

\* description.toLowerCase().split(/\s+/)
keywordsOf(description) == splitWhitespace(toLowerCase(description))

\* the searchable text of GetLocatorsTool.findMatchingElements
searchTextOf(el) ==
  toLowerCase(join(filterPresent(<<el.id, el.name, el.className, el.text,
                                   el.placeholder, el.ariaLabel, el.type, el.title,
                                   el.tagName, el.role, el.testId>>), <<" ">>))

\* f?.toLowerCase().includes(keyword): false when the field is absent
FieldIncludes(field, keyword) ==
  field /= <<>> /\ includes(toLowerCase(field), keyword)

\* the id test done by containment instead of equality
IdContains(el, keyword) == el.id /= <<>> /\ includes(toLowerCase(el.id), keyword)

\* el.id?.toLowerCase() === keyword
IdEquals(el, keyword) == el.id /= <<>> /\ toLowerCase(el.id) = keyword

\* what one pass of the keyword loop adds to the score
KeywordScore(el, searchText, keyword) ==
  IF includes(searchText, keyword)
    THEN 1
         + (IF IdEquals(el, keyword) THEN 3 ELSE 0)
         + (IF FieldIncludes(el.testId, keyword) THEN 3 ELSE 0)
         + (IF FieldIncludes(el.ariaLabel, keyword) THEN 2 ELSE 0)
         + (IF FieldIncludes(el.text, keyword) THEN 2 ELSE 0)
         + (IF FieldIncludes(el.placeholder, keyword) THEN 2 ELSE 0)
    ELSE 0

\* the for-of loop over the keywords
RECURSIVE ScoreFrom(_, _, _, _)
ScoreFrom(el, keywords, k, score) ==
  IF k > Len(keywords) THEN score
  ELSE ScoreFrom(el, keywords, k + 1,
                 score + KeywordScore(el, searchTextOf(el), keywords[k]))

\* allElements.map(...): every element paired with its score
scoreElements(allElements, description) ==
  [i \in 1..Len(allElements) |->
     [element |-> allElements[i],
      score |-> ScoreFrom(allElements[i], keywordsOf(description), 1, 0)]]

\* the filter that keeps every scored element
KeepAll(s) == TRUE

\* .filter((s) => s.score > 0)
HasScore(s) == s.score > 0

RECURSIVE filterScored(_)
filterScored(scored) ==
  IF scored = <<>> THEN <<>>
  ELSE (IF HasScore(Head(scored)) THEN <<Head(scored)>> ELSE <<>>)
         \o filterScored(Tail(scored))

\* an insertion that puts x ahead of the elements of equal score
RECURSIVE InsertAheadOfEqualScore(_, _)
InsertAheadOfEqualScore(sorted, x) ==
  IF sorted = <<>> THEN <<x>>
  ELSE IF Head(sorted).score > x.score
    THEN <<Head(sorted)>> \o InsertAheadOfEqualScore(Tail(sorted), x)
    ELSE <<x>> \o sorted

\* .sort((a, b) => b.score - a.score), stable
RECURSIVE InsertByScore(_, _)
InsertByScore(sorted, x) ==
  IF sorted = <<>> THEN <<x>>
  ELSE IF Head(sorted).score >= x.score
    THEN <<Head(sorted)>> \o InsertByScore(Tail(sorted), x)
    ELSE <<x>> \o sorted

RECURSIVE SortByScoreFrom(_, _, _)
SortByScoreFrom(scored, k, sorted) ==
  IF k > Len(scored) THEN sorted
  ELSE SortByScoreFrom(scored, k + 1, InsertByScore(sorted, scored[k]))

\* GetLocatorsTool.findMatchingElements, after getAllElements
findMatchingElements(allElements, description) ==
  LET kept == SortByScoreFrom(filterScored(scoreElements(allElements, description)),
                              1, <<>>)
  IN [i \in 1..Len(kept) |-> kept[i].element]

----------------------------------------------------------------------------
(* The locator validator                                                   *)

\* the text has the literal at position i
HasAt(s, i, lit) ==
  i >= 1 /\ i + Len(lit) - 1 <= Len(s) /\ SubSeq(s, i, i + Len(lit) - 1) = lit

\* the characters /\w/ matches
IsWordChar(c) == c \in Range(UpperChars) \cup Range(LowerChars) \cup Range(DigitChars) \cup {"_"}

\* the position behind the whitespace /\s*/ consumes from position i
RECURSIVE SkipWhitespace(_, _)
SkipWhitespace(s, i) ==
  IF i <= Len(s) /\ IsWhitespace(s[i]) THEN SkipWhitespace(s, i + 1) ELSE i

\* the position of the first quote at or behind position i (Len(s) + 1 if none)
RECURSIVE NextQuote(_, _, _)
NextQuote(s, i, quotes) ==
  IF i > Len(s) \/ s[i] \in quotes THEN i ELSE NextQuote(s, i + 1, quotes)

\* the position behind the word characters /\w+/ consumes from position i
RECURSIVE WordEnd(_, _)
WordEnd(s, i) ==
  IF i <= Len(s) /\ IsWordChar(s[i]) THEN WordEnd(s, i + 1) ELSE i

NoMatch == [ok |-> FALSE, value |-> <<>>, name |-> <<>>, next |-> 0]

\* q([^q]+)q at position i: a quote, one or more characters that are no
\* quote, a quote
QuotedAt(s, i, quotes) ==
  LET j == NextQuote(s, i + 1, quotes)
  IN IF i <= Len(s) /\ s[i] \in quotes /\ j > i + 1 /\ j <= Len(s)
       THEN [ok |-> TRUE, value |-> SubSeq(s, i + 1, j - 1), name |-> <<>>, next |-> j + 1]
       ELSE NoMatch

\* fn\(q([^q]+)q\) at position i
CallAt(s, i, fn, quotes) ==
  LET arg == QuotedAt(s, i + Len(fn) + 1, quotes)
  IN IF HasAt(s, i, fn \o <<"(">>) /\ arg.ok /\ HasAt(s, arg.next, <<")">>)
       THEN arg ELSE NoMatch

\* getByRole\(q(\w+)q(?:,\s*\{\s*name:\s*q([^q]+)q\s*\})?\) at position i
RoleCallAt(s, i, quotes) ==
  LET open == i + Len(<<"g", "e", "t", "B", "y", "R", "o", "l", "e", "(">>)
      j == WordEnd(s, open + 1)
      brace == SkipWhitespace(s, j + 2)
      key == SkipWhitespace(s, brace + 1)
      arg == QuotedAt(s, SkipWhitespace(s, key + Len(<<"n", "a", "m", "e", ":">>)), quotes)
      close == SkipWhitespace(s, arg.next)
  IN IF ~(/\ HasAt(s, i, <<"g", "e", "t", "B", "y", "R", "o", "l", "e", "(">>)
          /\ open <= Len(s) /\ s[open] \in quotes
          /\ j > open + 1 /\ j <= Len(s) /\ s[j] \in quotes)
       THEN NoMatch
     ELSE IF /\ HasAt(s, j + 1, <<",">>) /\ HasAt(s, brace, <<"{">>) /\ HasAt(s, key, <<"n", "a", "m", "e", ":">>)
             /\ arg.ok /\ HasAt(s, close, <<"}", ")">>)
       THEN [ok |-> TRUE, value |-> SubSeq(s, open + 1, j - 1), name |-> arg.value,
             next |-> close + 2]
     ELSE IF HasAt(s, j + 1, <<")">>)
       THEN [ok |-> TRUE, value |-> SubSeq(s, open + 1, j - 1), name |-> <<>>,
             next |-> j + 2]
     ELSE NoMatch

\* String.prototype.match without the g flag takes the leftmost match
Leftmost(positions) == CHOOSE i \in positions : \A j \in positions : i <= j

matchCall(s, fn, quotes) ==
  LET hits == {i \in 1..Len(s) : CallAt(s, i, fn, quotes).ok}
  IN IF hits = {} THEN NoMatch ELSE CallAt(s, Leftmost(hits), fn, quotes)

matchRoleCall(s, quotes) ==
  LET hits == {i \in 1..Len(s) : RoleCallAt(s, i, quotes).ok}
  IN IF hits = {} THEN NoMatch ELSE RoleCallAt(s, Leftmost(hits), quotes)

\* the driver operation a locator string stands for
LocatorOp(kind, value, name) == [kind |-> kind, value |-> value, name |-> name]

\* one `if (str.startsWith(fn)) { match ... if (match) return ... }` of a
\* parser, with the rest of the parser as what follows it
ParseStep(str, fn, kind, quotes, rest) ==
  LET match == IF fn = <<"g", "e", "t", "B", "y", "R", "o", "l", "e">> THEN matchRoleCall(str, quotes)
               ELSE matchCall(str, fn, quotes)
  IN IF startsWith(str, fn) /\ match.ok
       THEN LocatorOp(kind, match.value, match.name)
       ELSE rest

\* the call patterns of LocatorEngine.parseLocatorString, in its order
EnginePatterns ==
  <<[fn |-> <<"g", "e", "t", "B", "y", "R", "o", "l", "e">>, kind |-> "role"],
    [fn |-> <<"g", "e", "t", "B", "y", "T", "e", "x", "t">>, kind |-> "text"],
    [fn |-> <<"g", "e", "t", "B", "y", "T", "e", "s", "t", "I", "d">>, kind |-> "testId"],
    [fn |-> <<"g", "e", "t", "B", "y", "P", "l", "a", "c", "e", "h", "o", "l", "d", "e", "r">>, kind |-> "placeholder"],
    [fn |-> <<"l", "o", "c", "a", "t", "o", "r">>, kind |-> "locator"]>>

\* the call patterns of RunTestTool.getLocator, in its order
RunTestPatterns ==
  <<[fn |-> <<"g", "e", "t", "B", "y", "R", "o", "l", "e">>, kind |-> "role"],
    [fn |-> <<"g", "e", "t", "B", "y", "T", "e", "x", "t">>, kind |-> "text"],
    [fn |-> <<"g", "e", "t", "B", "y", "T", "e", "s", "t", "I", "d">>, kind |-> "testId"],
    [fn |-> <<"g", "e", "t", "B", "y", "P", "l", "a", "c", "e", "h", "o", "l", "d", "e", "r">>, kind |-> "placeholder"],
    [fn |-> <<"g", "e", "t", "B", "y", "L", "a", "b", "e", "l">>, kind |-> "label"],
    [fn |-> <<"g", "e", "t", "B", "y", "A", "l", "t", "T", "e", "x", "t">>, kind |-> "altText"],
    [fn |-> <<"l", "o", "c", "a", "t", "o", "r">>, kind |-> "locator"]>>

\* the chain of ifs, ending with `return page.locator(str)`
RECURSIVE ParseFrom(_, _, _, _)
ParseFrom(str, patterns, k, quotes) ==
  IF k > Len(patterns) THEN LocatorOp("locator", str, <<>>)
  ELSE ParseStep(str, patterns[k].fn, patterns[k].kind, quotes,
                 ParseFrom(str, patterns, k + 1, quotes))

\* LocatorEngine.parseLocatorString: the operation it calls on the page
parseLocatorString(str) == ParseFrom(str, EnginePatterns, 1, {"'"})

\* RunTestTool.getLocator: the operation it calls on the page
getLocator(locatorStr) == ParseFrom(locatorStr, RunTestPatterns, 1, {"'", "\""})

\* a selector of the form #id
IsIdSelector(sel) ==
  Len(sel) >= 2 /\ sel[1] = "#" /\ \A i \in 2..Len(sel) : IsIdentChar(sel[i])

\* a selector that opens with a function token, which the driver's selector
\* parser rejects
OpensWithCall(sel) ==
  \E i \in 2..Len(sel) : sel[i] = "(" /\ \A j \in 1..(i - 1) : IsIdentChar(sel[j])

\* locator.count(): the counts the driver can report for an operation on a
\* document. Test ids and #id selectors are counted on the document; what
\* the other operations match is the driver's to decide.
DriverCounts(doc, op) ==
  IF op.kind = "testId"
    THEN {Cardinality({i \in DOMAIN doc : doc[i].dataTestid = op.value})}
  ELSE IF op.kind = "locator" /\ IsIdSelector(op.value)
    THEN {Cardinality({i \in DOMAIN doc : doc[i].id = SubSeq(op.value, 2, Len(op.value))})}
  ELSE IF op.kind = "locator" /\ OpensWithCall(op.value) THEN {}
  ELSE 0..MaxMatchCount

\* locator.count() can throw: the selector does not parse
DriverThrows(op) ==
  op.kind = "locator" /\ OpensWithCall(op.value)

\* suggestions that are left out when nothing was found
SuggestionsWhenMany(count) ==
  IF count > 1
    THEN <<<<"F", "o", "u", "n", "d", " ">> \o Decimal(count) \o <<" ", "e", "l", "e", "m", "e", "n", "t", "s", ".", " ", "C", "o", "n", "s", "i", "d", "e", "r", " ", "a", "d", "d", "i", "n", "g", " ", "m", "o", "r", "e", " ", "s", "p", "e", "c", "i", "f", "i", "c", "i", "t", "y", ".">>,
           <<"T", "r", "y", " ", "u", "s", "i", "n", "g", " ", "g", "e", "t", "B", "y", "R", "o", "l", "e", " ", "w", "i", "t", "h", " ", "n", "a", "m", "e", " ", "o", "p", "t", "i", "o", "n", " ", "f", "o", "r", " ", "u", "n", "i", "q", "u", "e", "n", "e", "s", "s", ".">>>>
  ELSE <<>>

\* the suggestions of the try block
SuggestionsOfCount(count) ==
  IF count = 0
    THEN <<<<"E", "l", "e", "m", "e", "n", "t", " ", "n", "o", "t", " ", "f", "o", "u", "n", "d", ".", " ", "C", "h", "e", "c", "k", " ", "i", "f", " ", "t", "h", "e", " ", "p", "a", "g", "e", " ", "h", "a", "s", " ", "l", "o", "a", "d", "e", "d", " ", "c", "o", "m", "p", "l", "e", "t", "e", "l", "y", ".">>,
           <<"V", "e", "r", "i", "f", "y", " ", "t", "h", "e", " ", "l", "o", "c", "a", "t", "o", "r", " ", "s", "y", "n", "t", "a", "x", " ", "i", "s", " ", "c", "o", "r", "r", "e", "c", "t", ".">>>>
  ELSE IF count > 1
    THEN <<<<"F", "o", "u", "n", "d", " ">> \o Decimal(count) \o <<" ", "e", "l", "e", "m", "e", "n", "t", "s", ".", " ", "C", "o", "n", "s", "i", "d", "e", "r", " ", "a", "d", "d", "i", "n", "g", " ", "m", "o", "r", "e", " ", "s", "p", "e", "c", "i", "f", "i", "c", "i", "t", "y", ".">>,
           <<"T", "r", "y", " ", "u", "s", "i", "n", "g", " ", "g", "e", "t", "B", "y", "R", "o", "l", "e", " ", "w", "i", "t", "h", " ", "n", "a", "m", "e", " ", "o", "p", "t", "i", "o", "n", " ", "f", "o", "r", " ", "u", "n", "i", "q", "u", "e", "n", "e", "s", "s", ".">>>>
  ELSE <<>>

\* a try block that calls every found locator unique
ValidationUniqueWhenFound(count) ==
  [isValid |-> count > 0,
   matchCount |-> count,
   isUnique |-> count >= 1,
   suggestions |-> SuggestionsOfCount(count)]

\* the result of the try block, for the count the driver reports
ValidationOfCount(count) ==
  [isValid |-> count > 0,
   matchCount |-> count,
   isUnique |-> count = 1,
   suggestions |-> SuggestionsOfCount(count)]

\* the result of the catch block, for the message of the caught error
ValidationOfError(message) ==
  [isValid |-> FALSE,
   matchCount |-> 0,
   isUnique |-> FALSE,
   suggestions |-> <<<<"I", "n", "v", "a", "l", "i", "d", " ", "l", "o", "c", "a", "t", "o", "r", " ", "s", "y", "n", "t", "a", "x", ":", " ">> \o message>>]

----------------------------------------------------------------------------
(* Tool results                                                            *)

\* what a call that throws leaves to its caller
Thrown(op, message) == [op |-> op, threw |-> TRUE, error |-> message]

\* a no-match shape that carries the fields of a match left blank
NoMatchBlank ==
  [matchedElements |-> 0,
   locators |-> <<>>,
   recommended |-> <<>>,
   playwright |-> [recommended |-> <<>>, all |-> <<>>],
   selenium |-> [recommended |-> [java |-> <<>>, python |-> <<>>, csharp |-> <<>>],
                 all |-> <<>>],
   alternativeSelectors |-> [css |-> <<>>, xpath |-> <<>>]]

\* the no-match shape of GetLocatorsTool.execute
NoMatchResult ==
  [matchedElements |-> 0,
   locators |-> <<>>,
   recommended |-> <<"N", "o", " ", "m", "a", "t", "c", "h", "i", "n", "g", " ", "e", "l", "e", "m", "e", "n", "t", "s", " ", "f", "o", "u", "n", "d", ".", " ", "T", "r", "y", " ", "a", " ", "d", "i", "f", "f", "e", "r", "e", "n", "t", " ", "d", "e", "s", "c", "r", "i", "p", "t", "i", "o", "n", ".">>,
   playwright |-> [recommended |-> <<>>, all |-> <<>>],
   selenium |-> [recommended |-> [java |-> <<>>, python |-> <<>>, csharp |-> <<>>],
                 all |-> <<>>],
   alternativeSelectors |-> [css |-> <<>>, xpath |-> <<>>]]

\* ranked[0]?.locator || fallback
FirstLocatorOr(ranked, fallback) ==
  IF ranked /= <<>> /\ ranked[1].locator /= <<>> THEN ranked[1].locator ELSE fallback

\* the result of GetLocatorsTool.execute for the matched elements
GetLocatorsResult(elements) ==
  IF Len(elements) = 0 THEN NoMatchResult
  ELSE LET element == elements[1]
           ranked == slice(rankLocators(GetLocatorsTool_generateLocators(element)),
                           MAX_LOCATORS)
           seleniumLocators == generateSeleniumLocators(element)
       IN [matchedElements |-> Len(elements),
           locators |-> ranked,
           recommended |-> FirstLocatorOr(ranked, <<"N", "o", " ", "l", "o", "c", "a", "t", "o", "r", " ", "f", "o", "u", "n", "d">>),
           playwright |-> [recommended |-> FirstLocatorOr(ranked, <<>>),
                           all |-> [i \in 1..Len(ranked) |-> ranked[i].locator]],
           selenium |-> [recommended |->
                           IF seleniumLocators /= <<>> THEN seleniumLocators[1]
                           ELSE [java |-> <<>>, python |-> <<>>, csharp |-> <<>>],
                         all |-> seleniumLocators],
           alternativeSelectors |-> [css |-> element.selector,
                                     xpath |-> element.xpath]]

\* AnalyzePageTool.describeElement
describeElement(el) ==
  join((IF el.text /= <<>> THEN <<<<"\"">> \o substring(el.text, 30) \o <<"\"">>>> ELSE <<>>)
       \o (IF el.placeholder /= <<>>
             THEN <<<<"p", "l", "a", "c", "e", "h", "o", "l", "d", "e", "r", "=", "\"">> \o el.placeholder \o <<"\"">>>> ELSE <<>>)
       \o (IF el.ariaLabel /= <<>>
             THEN <<<<"a", "r", "i", "a", "-", "l", "a", "b", "e", "l", "=", "\"">> \o el.ariaLabel \o <<"\"">>>> ELSE <<>>)
       \o (IF el.type /= <<>> /\ el.type /= el.tagName
             THEN <<<<"t", "y", "p", "e", "=">> \o el.type>> ELSE <<>>)
       \o (IF el.name /= <<>> THEN <<<<"n", "a", "m", "e", "=", "\"">> \o el.name \o <<"\"">>>> ELSE <<>>)
       \o <<<<"<">> \o el.tagName \o <<">">>>>, <<" ">>)

\* the body of limited.map(...) in AnalyzePageTool.execute
PageElementOf(el) ==
  LET ranked == slice(rankLocators(AnalyzePageTool_generateLocators(el)),
                      MAX_LOCATORS_PER_ELEMENT)
  IN [element |-> describeElement(el),
      type |-> toLowerCase(el.tagName),
      locators |-> ranked,
      recommended |-> FirstLocatorOr(ranked, <<"N", "/", "A">>)]

\* the predicate of the elementTypes filter
MatchesType(el, elementTypes) ==
  \E k \in 1..Len(elementTypes) :
     LET t == toLowerCase(elementTypes[k])
     IN \/ includes(toLowerCase(el.tagName), t)
        \/ FieldIncludes(el.type, t)
        \/ FieldIncludes(el.role, t)

RECURSIVE filterByType(_, _)
filterByType(els, elementTypes) ==
  IF els = <<>> THEN <<>>
  ELSE (IF MatchesType(Head(els), elementTypes) THEN <<Head(els)>> ELSE <<>>)
         \o filterByType(Tail(els), elementTypes)

\* the local `filtered` of AnalyzePageTool.execute
filteredElements(allElements, elementTypes) ==
  IF Len(elementTypes) > 0 THEN filterByType(allElements, elementTypes) ELSE allElements

\* the result of AnalyzePageTool.execute for the extracted elements
AnalyzePageResult(allElements, elementTypes) ==
  LET filtered == filteredElements(allElements, elementTypes)
      truncated == Len(filtered) > MAX_ELEMENTS
      limited == slice(filtered, MAX_ELEMENTS)
      elements == [i \in 1..Len(limited) |-> PageElementOf(limited[i])]
  IN [totalElements |-> Len(allElements),
      returnedElements |-> Len(elements),
      truncated |-> truncated,
      elements |-> elements]


----------------------------------------------------------------------------
(* LocatorEngine: its extractor and its matcher                            *)

LocatorEngine_interactiveSelectors ==
  <<"button", "a", "input", "select", "textarea",
    "[role='button']", "[role='link']", "[role='textbox']",
    "[role='checkbox']", "[role='radio']", "[role='combobox']",
    "[onclick]", "[tabindex]">>

\* the ElementInfo LocatorEngine.getAllInteractiveElements pushes for node i
LocatorEngine_ElementInfoOf(doc, i) ==
  LET n == doc[i]
      tag == toLowerCase(n.tagName)
      classes == join(slice(classList(n), 2), <<".">>)
  IN [ElementInfoOf(doc, i) EXCEPT
        !.text = substring(trim(n.innerText), ENGINE_TEXT_LENGTH),
        !.testId = IF n.dataTestid /= <<>> THEN n.dataTestid ELSE n.dataTestId,
        !.selector = IF n.id /= <<>> THEN <<"#">> \o n.id
                     ELSE IF classes /= <<>> THEN tag \o <<".">> \o classes ELSE tag]

\* LocatorEngine.getAllInteractiveElements: a node is pushed at the first
\* selector it matches, in document order within a selector, unless its
\* box is empty
LocatorEngine_getAllInteractiveElements(doc) ==
  LET selectors == LocatorEngine_interactiveSelectors
      Matching(i) == {k \in DOMAIN selectors : MatchesSelector(doc[i], selectors[k])}
      First(i) == CHOOSE k \in Matching(i) : \A m \in Matching(i) : k <= m
      pushed == {i \in DOMAIN doc :
                   Matching(i) /= {} /\ doc[i].width /= 0 /\ doc[i].height /= 0}
      Before(j, i) == First(j) < First(i) \/ (First(j) = First(i) /\ j <= i)
  IN [p \in 1..Cardinality(pushed) |->
       LocatorEngine_ElementInfoOf(
         doc, CHOOSE i \in pushed : Cardinality({j \in pushed : Before(j, i)}) = p)]

\* the searchable text of LocatorEngine.findMatchingElements
LocatorEngine_searchTextOf(el) ==
  toLowerCase(join(filterPresent(<<el.id, el.name, el.className, el.text,
                                   el.placeholder, el.ariaLabel, el.type, el.title,
                                   el.tagName>>), <<" ">>))

\* LocatorEngine.findMatchingElements, after getAllInteractiveElements
LocatorEngine_findMatchingElements(allElements, description) ==
  LET keywords == keywordsOf(description)
      kept == {i \in DOMAIN allElements :
                 \E k \in DOMAIN keywords :
                   includes(LocatorEngine_searchTextOf(allElements[i]), keywords[k])}
  IN [p \in 1..Cardinality(kept) |->
       allElements[CHOOSE i \in kept : Cardinality({j \in kept : j <= i}) = p]]

\* the result of LocatorEngine.getLocators for the matched elements
LocatorEngine_getLocatorsResult(elementDescription, elements) ==
  IF Len(elements) = 0
    THEN [element |-> elementDescription, locators |-> <<>>,
          recommended |-> <<"N", "o", " ", "m", "a", "t", "c", "h", "i", "n", "g", " ", "e", "l", "e", "m", "e", "n", "t", "s", " ", "f", "o", "u", "n", "d">>]
    ELSE LET ranked == rankLocators(LocatorEngine_generateLocators(elements[1]))
         IN [element |-> elementDescription, locators |-> ranked,
             recommended |-> FirstLocatorOr(ranked, <<"N", "o", " ", "l", "o", "c", "a", "t", "o", "r", " ", "f", "o", "u", "n", "d">>)]
----------------------------------------------------------------------------
(* The shared browser session and the tool calls in flight                 *)
(*                                                                         *)
(* The request handler is an async function: a call runs until its next    *)
(* await, and the calls that arrived since run in between. A browser, its  *)
(* context and its page are named by the call whose launch created them; 0 *)
(* is null. A document is named by its url.                                *)

\* no operation has returned yet, or the last response has been sent
Idle == [op |-> "idle", threw |-> FALSE]

CallIds == 1..MaxInFlight

\* the tools that share the BrowserManager
ToolNames == {"get_locators", "analyze_page"}

SessionUrls == {"https://a.example", "https://b.example"}

IdleCall ==
  [pc |-> "idle", tool |-> "none", url |-> "none", via |-> "none",
   handle |-> 0, gotos |-> 0, evaluated |-> "none", error |-> "none"]

\* the server after start-up: `let browserManager = null`, no tool instance
SessionStart ==
  [browserManager |-> FALSE,
   tools |-> {},
   browser |-> 0,
   context |-> 0,
   page |-> 0,
   launched |-> {},
   shown |-> [p \in CallIds |-> "about:blank"],
   requests |-> 0,
   calls |-> [c \in CallIds |-> IdleCall]]

SessionInit ==
  /\ page = <<>>
  /\ res = Idle
  /\ session = SessionStart

Call(c) == session.calls[c]

\* the call moves on, the fields of the session in `changes` change with it
Step(c, call, changes) ==
  /\ session' = changes @@ [session EXCEPT !.calls[c] = call @@ Call(c)]
  /\ UNCHANGED <<page, res>>

\* an error thrown inside the handler's try block reaches its catch
Throws(c, message, changes) ==
  Step(c, [pc |-> "error", error |-> message], changes)

\* the synchronous start of BrowserManager.getPage inside navigateTo: the
\* page if there is one; else launch(), which returns at once when
\* this.browser is set, so that getPage returns the null page
GetPage(c, changes) ==
  IF session.page /= 0
    THEN Step(c, [pc |-> "goto", handle |-> session.page], changes)
  ELSE IF session.browser /= 0
    THEN Step(c, [pc |-> "goto", handle |-> 0], changes)
  ELSE Step(c, [pc |-> "awaitBrowser", via |-> "getPage"], changes)

\* the handler takes up a request: get<Tool>() up to its first await. The
\* call is numbered by the first free slot.
Request(c, tool, url) ==
  /\ Call(c).pc = "idle"
  /\ \A d \in CallIds : d < c => Call(d).pc /= "idle"
  /\ session.requests < MaxRequests
  /\ LET call == [tool |-> tool, url |-> url]
         taken == [requests |-> session.requests + 1]
     IN IF tool \in session.tools
          THEN Step(c, [pc |-> "execute"] @@ call, taken)
        ELSE IF session.browserManager
          THEN Step(c, [pc |-> "createTool"] @@ call, taken)
        ELSE Step(c, [pc |-> "awaitBrowser", via |-> "getBrowserManager"] @@ call,
                  [browserManager |-> TRUE] @@ taken)

\* get<Tool>() after `await getBrowserManager()`: the tool instance is made
CreateTool(c) ==
  /\ Call(c).pc = "createTool"
  /\ Step(c, [pc |-> "execute"], [tools |-> session.tools \cup {Call(c).tool}])

\* tool.execute: browserManager.navigateTo(url), up to its first await
Execute(c) ==
  /\ Call(c).pc = "execute"
  /\ GetPage(c, << >>)

\* BrowserManager.launch: chromium.launch() resolves
BrowserLaunched(c) ==
  /\ Call(c).pc = "awaitBrowser"
  /\ Step(c, [pc |-> "awaitContext"],
          [browser |-> c, launched |-> session.launched \cup {c}])

\* BrowserManager.launch: browser.newContext() resolves
ContextCreated(c) ==
  /\ Call(c).pc = "awaitContext"
  /\ Step(c, [pc |-> "awaitPage"], [context |-> c])

\* BrowserManager.launch: context.newPage() resolves and launch returns, to
\* getBrowserManager or to getPage
PageCreated(c) ==
  /\ Call(c).pc = "awaitPage"
  /\ IF Call(c).via = "getBrowserManager"
       THEN Step(c, [pc |-> "createTool"], [page |-> c])
       ELSE Step(c, [pc |-> "goto", handle |-> c], [page |-> c])

\* BrowserManager.launch: the awaited step rejects
LaunchFails(c) ==
  /\ Call(c).pc \in {"awaitBrowser", "awaitContext", "awaitPage"}
  /\ Throws(c, "launch failed", << >>)

\* navigateTo: page.goto(url) resolves; on the null page it is a TypeError
\* and no navigation is issued. gotos counts the page.goto calls of the call.
Goto(c) ==
  /\ Call(c).pc = "goto"
  /\ IF Call(c).handle = 0
       THEN Throws(c, "Cannot read properties of null", << >>)
       ELSE Step(c, [pc |-> "evaluate", gotos |-> Call(c).gotos + 1],
                 [shown |-> [session.shown EXCEPT ![Call(c).handle] = Call(c).url]])

\* a navigation failure that is swallowed: the document query follows
GotoFailsThenEvaluates(c) ==
  /\ Call(c).pc = "goto"
  /\ Call(c).handle /= 0
  /\ Step(c, [pc |-> "evaluate", gotos |-> Call(c).gotos + 1,
              error |-> "page.goto failed"], << >>)

\* navigateTo: page.goto(url) rejects (unreachable url, load timeout); the
\* page shows the old document, or what another call has loaded meanwhile
GotoFails(c) ==
  /\ Call(c).pc = "goto"
  /\ Call(c).handle /= 0
  /\ Step(c, [pc |-> "error", gotos |-> Call(c).gotos + 1,
              error |-> "page.goto failed"], << >>)

\* the document query of the tool: page.evaluate on the page the call holds
Evaluate(c) ==
  /\ Call(c).pc = "evaluate"
  /\ Step(c, [pc |-> "respond", evaluated |-> session.shown[Call(c).handle]], << >>)

\* what the handler returns for a call that has run to its end: the result
\* of the tool, or from its catch block the message of the error
HandlerResponse(c) ==
  IF Call(c).pc = "error"
    THEN [isError |-> TRUE, text |-> <<"Error: ", Call(c).error>>]
    ELSE [isError |-> FALSE, text |-> <<Call(c).tool, Call(c).evaluated>>]

\* the handler returns the result, or the isError response of its catch
RespondTo(c) ==
  /\ Call(c).pc \in {"respond", "error"}
  /\ Step(c, IdleCall, << >>)

SessionNext ==
  \E c \in CallIds :
    \/ \E tool \in ToolNames, url \in SessionUrls : Request(c, tool, url)
    \/ CreateTool(c)
    \/ Execute(c)
    \/ BrowserLaunched(c)
    \/ ContextCreated(c)
    \/ PageCreated(c)
    \/ LaunchFails(c)
    \/ Goto(c)
    \/ GotoFails(c)
    \/ Evaluate(c)
    \/ RespondTo(c)

SessionSpec == SessionInit /\ [][SessionNext]_vars


----------------------------------------------------------------------------
(* Test runs                                                               *)
(*                                                                         *)
(* run_test goes to the one RunTestTool instance of the server, whose      *)
(* fields browser and page are shared by the execute calls in flight. A    *)
(* call runs until its next await. The browser and the page a run creates  *)
(* are named by the run; 0 is null. The BrowserManager of the inspection   *)
(* tools is carried along with the handle SharedHandle.                    *)

\* the two execute calls
RunIds == {1, 2}

SharedHandle == 3

PageIds == RunIds \cup {SharedHandle}

\* Date.now() - stepStart of a step that was executed
Elapsed == 1

\* the k-th step of the test that run r is given: navigations to urls of
\* its own and clicks in turn
StepAt(r, k) ==
  IF k % 2 = 1
    THEN [action |-> "navigate", locator |-> "none",
          value |-> <<"https://test.example", r, k>>, description |-> <<"open", k>>]
    ELSE [action |-> "click", locator |-> "getByRole('button')",
          value |-> <<>>, description |-> <<"click", k>>]

RECURSIVE StepsUpTo(_, _)
\* the list of the first n steps of run r
StepsUpTo(r, n) == IF n = 0 THEN <<>> ELSE Append(StepsUpTo(r, n - 1), StepAt(r, n))

StepLists(r) == {StepsUpTo(r, n) : n \in 0..MaxSteps}

\* the run_test calls: the run and the steps it is given
RunTestCalls == UNION {{[run |-> r, steps |-> steps] : steps \in StepLists(r)} : r \in RunIds}

\* the step lists given to generate_test and to a TestRunner
TestStepLists == StepLists(1)

NoResult ==
  [status |-> "none", steps |-> <<>>, totalSteps |-> 0, passedSteps |-> 0,
   failedSteps |-> 0, screenshotPath |-> "undefined", finalUrl |-> <<"undefined">>,
   error |-> "undefined"]

IdleRun ==
  [pc |-> "idle", steps |-> <<>>, i |-> 0, target |-> 0, stepResults |-> <<>>,
   errorMsg |-> "undefined", result |-> NoResult]

\* the server with the inspection session not launched, or launched and
\* showing a document
RunStart(launched) ==
  [browserManager |-> launched,
   browser |-> IF launched THEN SharedHandle ELSE 0,
   context |-> IF launched THEN SharedHandle ELSE 0,
   page |-> IF launched THEN SharedHandle ELSE 0,
   runTestTool |-> [browser |-> 0, page |-> 0],
   open |-> IF launched THEN {SharedHandle} ELSE {},
   shown |-> [p \in PageIds |->
               IF launched /\ p = SharedHandle THEN <<"https://a.example">>
                                              ELSE <<"about:blank">>],
   runs |-> [r \in RunIds |-> IdleRun]]

RunInit ==
  /\ page = <<>>
  /\ res = Idle
  /\ \E launched \in BOOLEAN : session = RunStart(launched)

Run(r) == session.runs[r]

\* the run moves on, the fields of the session in `changes` change with it
RunStep(r, run, changes) ==
  /\ session' = changes @@ [session EXCEPT !.runs[r] = run @@ Run(r)]
  /\ UNCHANGED <<page, res>>

Count(stepResults, status) ==
  Cardinality({k \in DOMAIN stepResults : stepResults[k].status = status})

\* RunTestTool.buildResult; thisPage is this.page when it is called
buildResult(status, stepResults, screenshotPath, error, thisPage) ==
  [status |-> status,
   steps |-> stepResults,
   totalSteps |-> Len(stepResults),
   passedSteps |-> Count(stepResults, "passed"),
   failedSteps |-> Count(stepResults, "failed"),
   screenshotPath |-> screenshotPath,
   finalUrl |-> IF thisPage = 0 THEN <<"undefined">> ELSE session.shown[thisPage],
   error |-> error]

StepResult(step, status, duration, error) ==
  [step |-> step.description, action |-> step.action, status |-> status,
   duration |-> duration, error |-> error]

\* the skipped entries that leave the entry of a failed step out
SkippedFromNext(steps, i) ==
  [k \in 1..(Len(steps) - i - 1) |->
    StepResult(steps[i + 1 + k], "skipped", 0, "undefined")]

\* execute: `for (let j = i + 1; ...)`, the entries of the steps after step i
Skipped(steps, i) ==
  [k \in 1..(Len(steps) - i) |-> StepResult(steps[i + k], "skipped", 0, "undefined")]

\* execute returns `result`: the finally block runs cleanup, which awaits
\* browser.close() on this.browser if there is one
Return(r, run, result, tool, changes) ==
  IF tool.browser /= 0
    THEN RunStep(r, [pc |-> "closing", target |-> tool.browser, result |-> result] @@ run,
                 changes)
    ELSE RunStep(r, [pc |-> "done", target |-> 0, result |-> result] @@ run, changes)

\* the outer catch of execute
Caught(r, run, message, tool, changes) ==
  Return(r, run,
         buildResult("failed", (run @@ Run(r)).stepResults, "undefined", message, tool.page),
         tool, changes)

\* the inner catch of execute after the screenshot: the skipped entries,
\* and the result
Failed(r, run, screenshotPath, tool, changes) ==
  LET now == run @@ Run(r)
      stepResults == now.stepResults \o Skipped(now.steps, now.i)
  IN Return(r, [stepResults |-> stepResults] @@ run,
            buildResult("failed", stepResults, screenshotPath, now.errorMsg, tool.page),
            tool, changes)

\* the inner catch of execute up to the screenshot: takeScreenshot returns
\* "" when there is no this.page, and awaits page.screenshot otherwise
StepThrew(r, run, message, tool, changes) ==
  LET now == run @@ Run(r)
      failed == [stepResults |->
                   Append(now.stepResults,
                          StepResult(now.steps[now.i], "failed", Elapsed, message)),
                 errorMsg |-> message] @@ run
  IN IF tool.page = 0
       THEN Failed(r, failed, "", tool, changes)
       ELSE RunStep(r, [pc |-> "failureShot", target |-> tool.page] @@ failed, changes)

\* the loop of execute at step run.i: executeStep throws when there is no
\* this.page and awaits the action on this.page otherwise; after the last
\* step the success screenshot
EnterStep(r, run, tool, changes) ==
  LET now == run @@ Run(r)
  IN IF now.i > Len(now.steps)
       THEN IF tool.page = 0
              THEN Return(r, run,
                          buildResult("passed", now.stepResults, "", "undefined", tool.page),
                          tool, changes)
              ELSE RunStep(r, [pc |-> "successShot", target |-> tool.page] @@ run, changes)
     ELSE IF tool.page = 0
       THEN StepThrew(r, run, "Page not initialized", tool, changes)
     ELSE RunStep(r, [pc |-> "step", target |-> tool.page] @@ run, changes)

\* the handler calls runTestTool.execute: up to `await chromium.launch`
StartRun(r, steps) ==
  /\ res = Idle
  /\ Run(r).pc = "idle"
  /\ RunStep(r, [pc |-> "launch", steps |-> steps], << >>)

\* a launch that stores the browser of the run in the shared session
BrowserLaunchedIntoSession(r) ==
  /\ Run(r).pc = "launch"
  /\ RunStep(r, [pc |-> "newContext"],
             [browser |-> r, open |-> session.open \cup {r}])

\* execute: chromium.launch resolves and this.browser is assigned
RunBrowserLaunched(r) ==
  /\ Run(r).pc = "launch"
  /\ RunStep(r, [pc |-> "newContext"],
             [runTestTool |-> [session.runTestTool EXCEPT !.browser = r],
              open |-> session.open \cup {r}])

\* execute: browser.newContext resolves
RunContextCreated(r) ==
  /\ Run(r).pc = "newContext"
  /\ r \in session.open
  /\ RunStep(r, [pc |-> "newPage"], << >>)

\* execute: context.newPage resolves, this.page is assigned and the loop
\* starts
RunPageCreated(r) ==
  /\ Run(r).pc = "newPage"
  /\ r \in session.open
  /\ LET tool == [session.runTestTool EXCEPT !.page = r]
     IN EnterStep(r, [i |-> 1], tool, [runTestTool |-> tool])

\* execute: chromium.launch, newContext or newPage rejects
RunLaunchFails(r) ==
  /\ Run(r).pc \in {"launch", "newContext", "newPage"}
  /\ Caught(r, << >>, "launch failed", session.runTestTool, << >>)

\* the action of a step on the page it holds
Acted(step, target) ==
  IF step.action = "navigate"
    THEN [shown |-> [session.shown EXCEPT ![target] = step.value]]
    ELSE << >>

\* a loop that goes on after a step that threw
StepFailsAndGoesOn(r) ==
  /\ Run(r).pc = "step"
  /\ LET run == [stepResults |->
                   Append(Run(r).stepResults,
                          StepResult(Run(r).steps[Run(r).i], "failed", Elapsed, "step failed")),
                 errorMsg |-> "step failed",
                 i |-> Run(r).i + 1]
     IN EnterStep(r, run, session.runTestTool, << >>)

\* execute: executeStep resolves; the entry is pushed and the loop goes on
StepPasses(r) ==
  /\ Run(r).pc = "step"
  /\ Run(r).target \in session.open
  /\ LET step == Run(r).steps[Run(r).i]
         changes == Acted(step, Run(r).target)
         run == [stepResults |->
                   Append(Run(r).stepResults, StepResult(step, "passed", Elapsed, "undefined")),
                 i |-> Run(r).i + 1]
     IN EnterStep(r, run, session.runTestTool, changes)

\* execute: executeStep rejects
StepFails(r) ==
  /\ Run(r).pc = "step"
  /\ StepThrew(r, << >>, "step failed", session.runTestTool, << >>)

\* takeScreenshot("failure") resolves
FailureShotTaken(r) ==
  /\ Run(r).pc = "failureShot"
  /\ Run(r).target \in session.open
  /\ Failed(r, << >>, "failure.png", session.runTestTool, << >>)

\* takeScreenshot("success") resolves
SuccessShotTaken(r) ==
  /\ Run(r).pc = "successShot"
  /\ Run(r).target \in session.open
  /\ Return(r, << >>,
            buildResult("passed", Run(r).stepResults, "success.png", "undefined",
                        session.runTestTool.page),
            session.runTestTool, << >>)

\* page.screenshot rejects inside takeScreenshot: the outer catch
ScreenshotFails(r) ==
  /\ Run(r).pc \in {"failureShot", "successShot"}
  /\ Caught(r, << >>, "screenshot failed", session.runTestTool, << >>)

\* cleanup: browser.close resolves, this.browser and this.page are reset
\* and execute returns
BrowserClosed(r) ==
  /\ Run(r).pc = "closing"
  /\ RunStep(r, [pc |-> "done", target |-> 0],
             [open |-> session.open \ {Run(r).target},
              runTestTool |-> [browser |-> 0, page |-> 0]])

stepToTypeScript(step) == <<"//", step.description, step.action, step.locator, step.value>>

\* RunTestTool.generateScript: one block of code per step
generateScript(steps, language) ==
  [language |-> language, stepCode |-> [k \in DOMAIN steps |-> stepToTypeScript(steps[k])]]

ScriptLanguages == {"typescript", "python"}

NoRun == \A r \in RunIds : Run(r).pc = "idle"

\* the handler calls runTestTool.generateScript
GenerateScript(steps, language) ==
  /\ res = Idle
  /\ NoRun
  /\ res' = [op |-> "generate_test", threw |-> FALSE, script |-> generateScript(steps, language)]
  /\ UNCHANGED <<page, session>>

\* TestRunner.runTest, for the step that throws (0: none) and the outcome
\* of page.screenshot; a rejected screenshot is not caught
runTest(steps, failAt, shot) ==
  LET n == IF failAt = 0 THEN Len(steps) ELSE failAt
      stepResults ==
        [k \in 1..n |->
          [step |-> steps[k].description,
           status |-> IF k = failAt THEN "failed" ELSE "passed",
           duration |-> Elapsed,
           error |-> IF k = failAt THEN "step failed" ELSE "undefined"]]
  IN IF ~shot
       THEN Thrown("runTest", "screenshot failed")
       ELSE [op |-> "runTest", threw |-> FALSE, input |-> steps,
             status |-> IF failAt = 0 THEN "passed" ELSE "failed",
             steps |-> stepResults,
             screenshotPath |-> IF failAt = 0 THEN "success.png" ELSE "failure.png",
             error |-> IF failAt = 0 THEN "undefined" ELSE "step failed"]

\* a program runs a test with a TestRunner of its own
RunTest(steps, failAt, shot) ==
  /\ res = Idle
  /\ NoRun
  /\ res' = runTest(steps, failAt, shot)
  /\ UNCHANGED <<page, session>>

\* the response has been sent
RunRespond ==
  /\ res /= Idle
  /\ res' = Idle
  /\ UNCHANGED <<page, session>>

RunNext ==
  \/ \E c \in RunTestCalls : StartRun(c.run, c.steps)
  \/ \E r \in RunIds :
       \/ RunBrowserLaunched(r)
       \/ RunContextCreated(r)
       \/ RunPageCreated(r)
       \/ RunLaunchFails(r)
       \/ StepPasses(r)
       \/ StepFails(r)
       \/ FailureShotTaken(r)
       \/ SuccessShotTaken(r)
       \/ ScreenshotFails(r)
       \/ BrowserClosed(r)
  \/ \E steps \in TestStepLists, language \in ScriptLanguages : GenerateScript(steps, language)
  \/ \E steps \in TestStepLists, failAt \in 0..MaxSteps, shot \in BOOLEAN :
       failAt <= Len(steps) /\ RunTest(steps, failAt, shot)
  \/ RunRespond

RunSpec == RunInit /\ [][RunNext]_vars

----------------------------------------------------------------------------
(* The properties of a generated page object                               *)

\* a property of the page object, for the element at a position of the page
PageElementProperty(propertyName, position) ==
  [propertyName |-> propertyName, xpath |-> <<"/", "h", "t", "m", "l", "[", "1", "]", "/", "b", "o", "d", "y", "[", "1", "]", "/", "*", "[">> \o Decimal(position) \o <<"]">>]

\* GeneratePOMTool.deduplicateProperties: a name seen before gets the number
\* of its occurrences so far appended
deduplicateProperties(properties) ==
  [i \in DOMAIN properties |->
    LET count == Cardinality({j \in 1..(i - 1) :
                                properties[j].propertyName = properties[i].propertyName})
    IN IF count > 0
         THEN [properties[i] EXCEPT !.propertyName = @ \o Decimal(count + 1)]
         ELSE properties[i]]

\* names as generatePropertyName makes them of the elements' texts
PropertyNames == {<<"t", "a", "b">>, <<"t", "a", "b", "2">>, <<"s", "a", "v", "e">>}

PropertyLists ==
  UNION {[1..n -> PropertyNames] : n \in 0..MaxProperties}

\* GeneratePOMTool.execute has made the properties of the page's elements
PomInit ==
  /\ page = <<>>
  /\ session = SessionStart
  /\ \E names \in PropertyLists :
       res = [op |-> "properties", threw |-> FALSE,
              properties |-> [i \in DOMAIN names |-> PageElementProperty(names[i], i)]]

\* GeneratePOMTool.execute: `const uniqueProperties = this.deduplicateProperties(properties)`
DeduplicateProperties ==
  /\ res.op = "properties"
  /\ res' = [op |-> "deduplicateProperties", threw |-> FALSE,
             properties |-> res.properties,
             uniqueProperties |-> deduplicateProperties(res.properties)]
  /\ UNCHANGED <<page, session>>

PomNext == DeduplicateProperties

PomSpec == PomInit /\ [][PomNext]_vars
----------------------------------------------------------------------------
(* Documents                                                               *)

PlainDiv == BlankNode

ClickDiv == [onclick |-> TRUE] @@ BlankNode

LoginButton ==
  [tagName |-> <<"B", "U", "T", "T", "O", "N">>, type |-> <<"s", "u", "b", "m", "i", "t">>, dataTestid |-> <<"l", "o", "g", "i", "n", "-", "b", "t", "n">>,
   ariaLabel |-> <<"L", "o", "g", "i", "n">>, innerText |-> <<"L", "o", "g", "i", "n">>] @@ BlankNode

SubmitButton ==
  [tagName |-> <<"B", "U", "T", "T", "O", "N">>, type |-> <<"s", "u", "b", "m", "i", "t">>, id |-> <<"s", "u", "b", "m", "i", "t", "-", "b", "t", "n">>,
   className |-> <<"b", "t", "n", " ", "m", "d", ":", "f", "l", "e", "x", " ", "b", "t", "n", "-", "p", "r", "i", "m", "a", "r", "y">>, innerText |-> <<" ", "S", "u", "b", "m", "i", "t", " ">>] @@ BlankNode

SubmitInput ==
  [tagName |-> <<"I", "N", "P", "U", "T">>, type |-> <<"s", "u", "b", "m", "i", "t">>, id |-> <<"S", "u", "b", "m", "i", "t">>, name |-> <<"g", "o">>] @@ BlankNode

EmailInput ==
  [tagName |-> <<"I", "N", "P", "U", "T">>, type |-> <<"e", "m", "a", "i", "l">>, id |-> <<"e", "m", "a", "i", "l">>, name |-> <<"e", "m", "a", "i", "l">>,
   placeholder |-> <<"E", "m", "a", "i", "l", " ", "a", "d", "d", "r", "e", "s", "s">>, ariaLabel |-> <<"E", "m", "a", "i", "l">>] @@ BlankNode

HomeLink ==
  [tagName |-> <<"A">>, href |-> <<"/", "h", "o", "m", "e">>, innerText |-> <<"H", "o", "m", "e">>, title |-> <<"I", "t", "'", "s", " ", "h", "o", "m", "e">>]
    @@ BlankNode

AgreeCheckbox ==
  [tagName |-> <<"I", "N", "P", "U", "T">>, type |-> <<"c", "h", "e", "c", "k", "b", "o", "x">>, name |-> <<"a", "g", "r", "e", "e">>] @@ BlankNode

HiddenButton ==
  [tagName |-> <<"B", "U", "T", "T", "O", "N">>, type |-> <<"s", "u", "b", "m", "i", "t">>, innerText |-> <<"S", "u", "b", "m", "i", "t">>,
   display |-> "none"] @@ BlankNode

SettingsTab ==
  [role |-> <<"t", "a", "b">>, tabindex |-> <<"0">>, innerText |-> <<"S", "e", "t", "t", "i", "n", "g", "s">>] @@ BlankNode

NotesArea ==
  [tagName |-> <<"T", "E", "X", "T", "A", "R", "E", "A">>, type |-> <<"t", "e", "x", "t", "a", "r", "e", "a">>, placeholder |-> <<"N", "o", "t", "e", "s">>] @@ BlankNode

ListButton ==
  [tagName |-> <<"B", "U", "T", "T", "O", "N">>, type |-> <<"b", "u", "t", "t", "o", "n">>, innerText |-> <<"B", "u", "y">>] @@ BlankNode

ListInput == [tagName |-> <<"I", "N", "P", "U", "T">>, type |-> <<"t", "e", "x", "t">>] @@ BlankNode

SaveButton ==
  [tagName |-> <<"B", "U", "T", "T", "O", "N">>, type |-> <<"s", "u", "b", "m", "i", "t">>, dataTestid |-> <<"s", "a", "v", "e", "-", "b", "t", "n">>,
   ariaLabel |-> <<"S", "a", "v", "e", " ", "a", "l", "l">>, id |-> <<"s", "a", "v", "e">>, innerText |-> <<"D", "o", "n", "'", "t", " ", "s", "a", "v", "e">>,
   className |-> <<"a", "l", "p", "h", "a">>] @@ BlankNode

MenuItem ==
  [role |-> <<"m", "e", "n", "u", "i", "t", "e", "m">>, dataCy |-> <<"m", "e", "n", "u", "-", "i", "t", "e", "m">>, ariaLabel |-> <<"M", "e", "n", "u">>,
   onclick |-> TRUE, className |-> <<"b", "e", "t", "a">>] @@ BlankNode

SearchInput ==
  [tagName |-> <<"I", "N", "P", "U", "T">>, type |-> <<"s", "e", "a", "r", "c", "h">>, dataTestId |-> <<"s", "e", "a", "r", "c", "h", "-", "b", "o", "x">>,
   ariaLabel |-> <<"S", "e", "a", "r", "c", "h">>, placeholder |-> <<"S", "e", "a", "r", "c", "h">>, name |-> <<"q">>, id |-> <<"q">>,
   className |-> <<"g", "a", "m", "m", "a">>] @@ BlankNode

CloseDiv ==
  [dataTestid |-> <<"c", "l", "o", "s", "e">>, ariaLabel |-> <<"C", "l", "o", "s", "e">>, onclick |-> TRUE,
   className |-> <<"d", "e", "l", "t", "a">>] @@ BlankNode

\* a button whose test id holds a single quote
QuotedTestIdButton ==
  [tagName |-> <<"B", "U", "T", "T", "O", "N">>, type |-> <<"s", "u", "b", "m", "i", "t">>, dataTestid |-> <<"o", "'", "k">>,
   innerText |-> <<"O", "K">>] @@ BlankNode

\* an aria-label as long as the text cap, its last character a single quote
LongQuotedLabel == [i \in 1..(MAX_TEXT_LENGTH - 1) |-> "x"] \o <<"'">>

LongLabelInput ==
  [tagName |-> <<"I", "N", "P", "U", "T">>, type |-> <<"t", "e", "x", "t">>, ariaLabel |-> LongQuotedLabel] @@ BlankNode

\* a named anchor: it has no href
NamedAnchor == [tagName |-> <<"A">>, name |-> <<"t", "o", "p">>, innerText |-> <<"T", "o", "p">>] @@ BlankNode

DisabledButton ==
  [tagName |-> <<"B", "U", "T", "T", "O", "N">>, type |-> <<"s", "u", "b", "m", "i", "t">>, innerText |-> <<"P", "a", "y">>, disabled |-> TRUE]
    @@ BlankNode

\* divs taken out of the tab order with a negative tab index
UnfocusableDiv == [tabindex |-> <<"-", "1">>, innerText |-> <<"P", "a", "n", "e", "l">>] @@ BlankNode

NegativeTabDiv == [tabindex |-> <<"-", "2">>, innerText |-> <<"D", "r", "a", "w", "e", "r">>] @@ BlankNode

ZeroWidthInput == [tagName |-> <<"I", "N", "P", "U", "T">>, type |-> <<"t", "e", "x", "t">>, width |-> 0] @@ BlankNode

InvisibleLink ==
  [tagName |-> <<"A">>, href |-> <<"/", "s", "k", "i", "p">>, innerText |-> <<"S", "k", "i", "p">>, visibility |-> "hidden"]
    @@ BlankNode

\* every combination of the attributes the synthesizers read
SynthNodes ==
  {n @@ BlankNode :
     n \in [tagName : {<<"D", "I", "V">>, <<"B", "U", "T", "T", "O", "N">>, <<"A">>, <<"I", "N", "P", "U", "T">>, <<"T", "E", "X", "T", "A", "R", "E", "A">>},
            id : {<<>>, <<"s", "a", "v", "e">>},
            name : {<<>>, <<"q">>},
            className : {<<>>, <<"b", "t", "n", " ", "l", "g">>, <<"m", "d", ":", "f", "l", "e", "x">>},
            type : {<<>>, <<"s", "u", "b", "m", "i", "t">>, <<"c", "h", "e", "c", "k", "b", "o", "x">>},
            placeholder : {<<>>, <<"E", "m", "a", "i", "l">>},
            innerText : {<<>>, <<"D", "o", "n", "'", "t", "\\", "s", "a", "v", "e">>},
            ariaLabel : {<<>>, <<"L", "o", "g", "i", "n">>},
            role : {<<>>, <<"t", "a", "b">>},
            dataTestid : {<<>>, <<"l", "o", "g", "i", "n", "-", "b", "t", "n">>},
            title : {<<>>, <<"T", "i", "p">>}]}

\* the sizes of the generated long documents, around the reporting cap
ListSizes == {MAX_ELEMENTS, MAX_ELEMENTS + 1, 75}

\* the longest document: two of three nodes are buttons, more than the cap
ButtonListUrl == [site |-> "list", size |-> MaxPageSize]

QuotedUrl == [site |-> "quoted", size |-> 0]

AnchorsUrl == [site |-> "anchors", size |-> 0]

SiteUrls == {[site |-> s, size |-> 0] : s \in {"blank", "login", "form", "catalog"}}

ListUrls == {[site |-> "list", size |-> k] : k \in ListSizes}

\* the document the driver loads for a url
DocumentAt(url) ==
  CASE url.site = "blank" -> <<>>
    [] url.site = "login" -> <<PlainDiv, LoginButton, ClickDiv>>
    [] url.site = "form" -> <<SubmitButton, PlainDiv, EmailInput, HomeLink, AgreeCheckbox,
                              HiddenButton, SettingsTab, SubmitInput, NotesArea>>
    [] url.site = "catalog" -> <<CloseDiv, SearchInput, MenuItem, SaveButton>>
    [] url.site = "quoted" -> <<QuotedTestIdButton, LongLabelInput>>
    [] url.site = "anchors" -> <<NamedAnchor, DisabledButton, UnfocusableDiv,
                                 NegativeTabDiv, ZeroWidthInput, InvisibleLink>>
    [] url.site = "list" -> [i \in 1..url.size |->
                               IF i % 3 = 0 THEN ListInput ELSE ListButton]

Descriptions ==
  {<<"s", "u", "b", "m", "i", "t", " ", "b", "u", "t", "t", "o", "n">>, <<"L", "o", "g", "i", "n">>, <<"e", "m", "a", "i", "l">>, <<"z", "z", "z">>, <<"t", "a", "b", " ", "S", "E", "T", "T", "I", "N", "G", "S">>, <<"a", "l", "p", "h", "a">>, <<"b", "e", "t", "a">>, <<"g", "a", "m", "m", "a">>,
   <<"d", "e", "l", "t", "a">>, <<"s", "a", "v", "e", " ", " ", "m", "e", "n", "u">>, <<" ", "s", "e", "a", "r", "c", "h">>}

ElementTypeFilters ==
  {<<>>, <<<<"b", "u", "t", "t", "o", "n">>>>, <<<<"i", "n", "p", "u", "t">>>>, <<<<"l", "i", "n", "k">>>>, <<<<"C", "h", "e", "c", "k", "b", "o", "x">>, <<"t", "a", "b">>>>}

\* descriptions that are empty or padded with whitespace
PaddedDescriptions == {<<>>, <<" ", "s", "e", "a", "r", "c", "h">>, <<"s", "a", "v", "e", " ">>, <<"z", "z", "z", " ">>}

GetLocatorsCalls ==
  {[url |-> u, elementDescription |-> d] : u \in SiteUrls, d \in Descriptions}
  \cup {[url |-> QuotedUrl, elementDescription |-> d] : d \in {<<"o", "k">>, <<"x", "x", "x">>}}
  \cup {[url |-> AnchorsUrl, elementDescription |-> <<"p", "a", "y">>]}
  \cup {[url |-> [site |-> s, size |-> 0], elementDescription |-> d] :
          s \in {"blank", "catalog"}, d \in PaddedDescriptions}

LocatorEngineCalls ==
  {[url |-> [site |-> s, size |-> 0], elementDescription |-> d] :
     s \in {"blank", "form", "catalog"}, d \in PaddedDescriptions \cup {<<"z", "z", "z">>, <<"e", "m", "a", "i", "l">>}}

AnalyzePageCalls ==
  {[url |-> u, elementTypes |-> t] : u \in SiteUrls, t \in ElementTypeFilters}
  \cup {[url |-> u, elementTypes |-> t] : u \in ListUrls, t \in {<<>>, <<<<"b", "u", "t", "t", "o", "n">>>>}}
  \cup {[url |-> ButtonListUrl, elementTypes |-> <<<<"b", "u", "t", "t", "o", "n">>>>]}
  \cup {[url |-> u, elementTypes |-> <<>>] : u \in {QuotedUrl, AnchorsUrl}}
  \cup {[url |-> [site |-> "form"], elementTypes |-> <<t>>] : t \in {<<"c", "h", "e", "c", "k", "b", "o", "x">>, <<"t", "e", "x", "t", "a", "r", "e", "a">>}}

LocatorStrings ==
  {<<"g", "e", "t", "B", "y", "T", "e", "s", "t", "I", "d", "(", "'", "l", "o", "g", "i", "n", "-", "b", "t", "n", "'", ")">>, <<"l", "o", "c", "a", "t", "o", "r", "(", "'", "#", "n", "o", "n", "e", "x", "i", "s", "t", "e", "n", "t", "'", ")">>, <<"g", "e", "t", "B", "y", "R", "o", "l", "e", "(", "'", "b", "u", "t", "t", "o", "n", "'">>,
   <<"g", "e", "t", "B", "y", "R", "o", "l", "e", "(", "'", "b", "u", "t", "t", "o", "n", "'", ",", " ", "{", " ", "n", "a", "m", "e", ":", " ", "'", "L", "o", "g", "i", "n", "'", " ", "}", ")">>, <<"g", "e", "t", "B", "y", "L", "a", "b", "e", "l", "(", "'", "L", "o", "g", "i", "n", "'", ")">>,
   <<"g", "e", "t", "B", "y", "A", "l", "t", "T", "e", "x", "t", "(", "'", "L", "o", "g", "o", "'", ")">>, <<"g", "e", "t", "B", "y", "T", "e", "x", "t", "(", "'", "L", "o", "g", "i", "n", "'", ")">>, <<"g", "e", "t", "B", "y", "P", "l", "a", "c", "e", "h", "o", "l", "d", "e", "r", "(", "'", "E", "m", "a", "i", "l", "'", ")">>,
   <<"/", "/", "b", "u", "t", "t", "o", "n", "[", "1", "]">>}

ValidateLocatorCalls ==
  {[url |-> u, locatorStr |-> l] :
     u \in {[site |-> s, size |-> 0] : s \in {"login", "blank"}}, l \in LocatorStrings}

\* messages of the errors the driver raises
ResolveErrors == {<<"U", "n", "e", "x", "p", "e", "c", "t", "e", "d", " ", "t", "o", "k", "e", "n", " ", "\"", "(", "\"", " ", "w", "h", "i", "l", "e", " ", "p", "a", "r", "s", "i", "n", "g", " ", "s", "e", "l", "e", "c", "t", "o", "r">>}

NavigationErrors == {<<"p", "a", "g", "e", ".", "g", "o", "t", "o", ":", " ", "n", "e", "t", ":", ":", "E", "R", "R", "_", "N", "A", "M", "E", "_", "N", "O", "T", "_", "R", "E", "S", "O", "L", "V", "E", "D">>}

----------------------------------------------------------------------------
(* The tool calls on the shared page                                       *)


Init ==
  /\ page = <<>>
  /\ res = Idle
  /\ session = SessionStart

\* BrowserManager.navigateTo fails: page.goto throws out of the tool; the
\* page is left on the old document or on none
NavigationFails(op) ==
  /\ res = Idle
  /\ UNCHANGED session
  /\ \E message \in NavigationErrors : res' = Thrown(op, message)
  /\ \E p \in {page, <<>>} : page' = p

\* GetLocatorsTool.execute
GetLocators(url, elementDescription) ==
  /\ res = Idle
  /\ UNCHANGED session
  /\ page' = DocumentAt(url)
  /\ LET allElements == getAllElements(page')
         elements == findMatchingElements(allElements, elementDescription)
     IN res' = [op |-> "get_locators", threw |-> FALSE,
                elementDescription |-> elementDescription,
                scored |-> scoreElements(allElements, elementDescription),
                elements |-> elements,
                value |-> GetLocatorsResult(elements)]

\* LocatorEngine.getLocators
LocatorEngineGetLocators(url, elementDescription) ==
  /\ res = Idle
  /\ UNCHANGED session
  /\ page' = DocumentAt(url)
  /\ LET allElements == LocatorEngine_getAllInteractiveElements(page')
         elements == LocatorEngine_findMatchingElements(allElements, elementDescription)
     IN res' = [op |-> "LocatorEngine.getLocators", threw |-> FALSE,
                elementDescription |-> elementDescription,
                allElements |-> allElements,
                elements |-> elements,
                value |-> LocatorEngine_getLocatorsResult(elementDescription, elements)]

\* AnalyzePageTool.execute
AnalyzePage(url, elementTypes) ==
  /\ res = Idle
  /\ UNCHANGED session
  /\ page' = DocumentAt(url)
  /\ LET allElements == getAllElements(page')
     IN res' = [op |-> "analyze_page", threw |-> FALSE,
                elementTypes |-> elementTypes,
                allElements |-> allElements,
                filtered |-> filteredElements(allElements, elementTypes),
                value |-> AnalyzePageResult(allElements, elementTypes)]

\* a catch block that lets the error escape
validateLocatorRethrows(message) == [threw |-> TRUE, error |-> message]

\* the catch block of LocatorEngine.validateLocator
validateLocatorCatch(message) == [threw |-> FALSE, value |-> ValidationOfError(message)]

\* LocatorEngine.validateLocator: the driver reports a count
ValidateLocatorCounts(url, locatorStr, count) ==
  /\ res = Idle
  /\ UNCHANGED session
  /\ page' = DocumentAt(url)
  /\ count \in DriverCounts(page', parseLocatorString(locatorStr))
  /\ res' = [op |-> "validate_locator", threw |-> FALSE, locatorStr |-> locatorStr,
             operation |-> parseLocatorString(locatorStr),
             resolved |-> TRUE, value |-> ValidationOfCount(count)]

\* LocatorEngine.validateLocator: parsing or counting throws
ValidateLocatorResolveThrows(url, locatorStr, message) ==
  /\ res = Idle
  /\ UNCHANGED session
  /\ page' = DocumentAt(url)
  /\ DriverThrows(parseLocatorString(locatorStr))
  /\ res' = [op |-> "validate_locator", locatorStr |-> locatorStr,
             operation |-> parseLocatorString(locatorStr),
             resolved |-> FALSE, message |-> message] @@ validateLocatorCatch(message)

\* RunTestTool.getLocator, on the page of the test run
GetLocator(locatorStr) ==
  /\ res = Idle
  /\ res' = [op |-> "getLocator", threw |-> FALSE, locatorStr |-> locatorStr,
             operation |-> getLocator(locatorStr)]
  /\ UNCHANGED <<page, session>>

\* the request handler sends the response; the next request is taken up
Respond ==
  /\ res /= Idle
  /\ res' = Idle
  /\ UNCHANGED <<page, session>>

Next ==
  \/ \E c \in GetLocatorsCalls : GetLocators(c.url, c.elementDescription)
  \/ \E c \in AnalyzePageCalls : AnalyzePage(c.url, c.elementTypes)
  \/ \E c \in LocatorEngineCalls : LocatorEngineGetLocators(c.url, c.elementDescription)
  \/ \E c \in ValidateLocatorCalls, n \in 0..MaxMatchCount :
       ValidateLocatorCounts(c.url, c.locatorStr, n)
  \/ \E c \in ValidateLocatorCalls, m \in ResolveErrors :
       ValidateLocatorResolveThrows(c.url, c.locatorStr, m)
  \/ \E l \in LocatorStrings : GetLocator(l)
  \/ \E op \in {"get_locators", "analyze_page", "validate_locator"} : NavigationFails(op)
  \/ Respond

Spec == Init /\ [][Next]_vars

----------------------------------------------------------------------------
(* The synthesizers and the ranker as functions of one element             *)

SynthInit ==
  /\ page \in {<<n>> : n \in SynthNodes}
  /\ res = Idle
  /\ session = SessionStart

TheElement == ElementInfoOf(page, 1)

GenerateLocators(who, locators) ==
  /\ res = Idle
  /\ res' = [op |-> "generateLocators", threw |-> FALSE, who |-> who,
             el |-> TheElement, locators |-> locators]
  /\ UNCHANGED <<page, session>>

GetLocatorsToolGenerates ==
  GenerateLocators("GetLocatorsTool", GetLocatorsTool_generateLocators(TheElement))

AnalyzePageToolGenerates ==
  GenerateLocators("AnalyzePageTool", AnalyzePageTool_generateLocators(TheElement))

LocatorEngineGenerates ==
  GenerateLocators("LocatorEngine", LocatorEngine_generateLocators(TheElement))

GenerateSeleniumLocators ==
  /\ res = Idle
  /\ res' = [op |-> "generateSeleniumLocators", threw |-> FALSE,
             el |-> TheElement, locators |-> generateSeleniumLocators(TheElement)]
  /\ UNCHANGED <<page, session>>

\* rankLocators applied to what a synthesizer returned
RankLocators ==
  /\ res.op = "generateLocators"
  /\ res' = [op |-> "rankLocators", threw |-> FALSE, who |-> res.who, el |-> res.el,
             input |-> res.locators, locators |-> rankLocators(res.locators)]
  /\ UNCHANGED <<page, session>>

SynthNext ==
  \/ GetLocatorsToolGenerates
  \/ AnalyzePageToolGenerates
  \/ LocatorEngineGenerates
  \/ GenerateSeleniumLocators
  \/ RankLocators

SpecSynth == SynthInit /\ [][SynthNext]_vars

----------------------------------------------------------------------------
(* Properties                                                              *)

Min(a, b) == IF a <= b THEN a ELSE b

Occurrences(s, x) == Cardinality({i \in DOMAIN s : s[i] = x})

PositionIn(s, x) == CHOOSE k \in DOMAIN s : s[k] = x

\* the optional attributes of an ElementInfo
HasNoOptionalAttribute(el) ==
  /\ el.id = <<>> /\ el.name = <<>> /\ el.className = <<>> /\ el.type = <<>>
  /\ el.placeholder = <<>> /\ el.text = <<>> /\ el.ariaLabel = <<>>
  /\ el.role = <<>> /\ el.testId = <<>> /\ el.title = <<>>

\* C1: every synthesis of dialect A is non-empty and holds an xpath candidate
\* of reliability 40; every synthesis of dialect B is non-empty and ends with
\* the tag-name locator of the element.
FallbackTotality ==
  /\ res.op = "generateLocators" =>
       /\ Len(res.locators) > 0
       /\ \E i \in DOMAIN res.locators :
            res.locators[i].type = "xpath" /\ res.locators[i].reliability = 40
  /\ res.op = "generateSeleniumLocators" =>
       /\ Len(res.locators) > 0
       /\ res.locators[Len(res.locators)] =
            [java |-> <<"B", "y", ".", "t", "a", "g", "N", "a", "m", "e", "(", "\"">> \o res.el.tagName \o <<"\"", ")">>,
             python |-> <<"B", "y", ".", "T", "A", "G", "_", "N", "A", "M", "E", ",", " ", "\"">> \o res.el.tagName \o <<"\"">>,
             csharp |-> <<"B", "y", ".", "T", "a", "g", "N", "a", "m", "e", "(", "\"">> \o res.el.tagName \o <<"\"", ")">>]

\* GetLocatorsTool synthesized for an element without any optional attribute
FallbackTotalityWitness ==
  /\ res.op = "generateLocators"
  /\ res.who = "GetLocatorsTool"
  /\ HasNoOptionalAttribute(res.el)
  /\ Len(res.locators) = 1
  /\ res.locators[1].type = "xpath"

\* C2: rankLocators returns a permutation of its input, non-increasing in
\* reliability, in which candidates of equal reliability keep the order the
\* synthesizer emitted them in.
RankIsStableSort ==
  res.op = "rankLocators" =>
    /\ Len(res.locators) = Len(res.input)
    /\ \A i \in DOMAIN res.input :
         Occurrences(res.locators, res.input[i]) = Occurrences(res.input, res.input[i])
    /\ \A i \in 1..(Len(res.locators) - 1) :
         res.locators[i].reliability >= res.locators[i + 1].reliability
    /\ \A i, j \in DOMAIN res.input :
         (i < j /\ res.input[i].reliability = res.input[j].reliability)
           => PositionIn(res.locators, res.input[i]) < PositionIn(res.locators, res.input[j])

\* a ranking that moved a candidate and left the label at 90 ahead of the id at 90
RankIsStableSortWitness ==
  /\ res.op = "rankLocators"
  /\ res.who = "GetLocatorsTool"
  /\ res.locators /= res.input
  /\ \E i \in 1..(Len(res.locators) - 1) :
       /\ res.locators[i].type = "label" /\ res.locators[i].reliability = 90
       /\ res.locators[i + 1].type = "id" /\ res.locators[i + 1].reliability = 90

\* the attributes that make up the searchable text of an element
SearchableFields(el) ==
  {el.id, el.name, el.className, el.text, el.placeholder, el.ariaLabel,
   el.type, el.title, el.tagName, el.role, el.testId} \ {<<>>}

\* a keyword occurs in the searchable text: it is empty, or it lies inside one
\* of the attributes (a keyword holds no whitespace, so it spans no two of them)
KeywordOccurs(el, keyword) ==
  \/ keyword = <<>>
  \/ \E f \in SearchableFields(el) : includes(toLowerCase(f), keyword)

\* C3: an element in whose searchable text no keyword of the description
\* occurs, and any element of score 0, is absent from what
\* findMatchingElements returns.
MatchExclusion ==
  (res.op = "get_locators" /\ ~res.threw) =>
    \A i \in DOMAIN res.scored :
      LET el == res.scored[i].element
          keywords == keywordsOf(res.elementDescription)
      IN /\ (\A k \in DOMAIN keywords : ~KeywordOccurs(el, keywords[k]))
              => el \notin Range(res.elements)
         /\ res.scored[i].score = 0 => el \notin Range(res.elements)

\* some elements matched while another, with no keyword in it, was left out
MatchExclusionWitness ==
  /\ res.op = "get_locators" /\ ~res.threw
  /\ Len(res.elements) > 0
  /\ \E i \in DOMAIN res.scored :
       /\ \A k \in DOMAIN keywordsOf(res.elementDescription) :
            ~KeywordOccurs(res.scored[i].element, keywordsOf(res.elementDescription)[k])
       /\ res.scored[i].element \notin Range(res.elements)

\* the number of keyword positions that occur in the element and satisfy P
BonusCount(el, keywords, P(_)) ==
  Cardinality({k \in DOMAIN keywords : KeywordOccurs(el, keywords[k]) /\ P(keywords[k])})

\* C4: the score is the sum, over the keywords that occur in the searchable
\* text, of 1, plus 3 when the id equals the keyword, plus 3 when the test id
\* contains it, plus 2 each when the aria-label, the text, the placeholder
\* contain it.
ScoreIsSumOfBonuses ==
  (res.op = "get_locators" /\ ~res.threw) =>
    \A i \in DOMAIN res.scored :
      LET el == res.scored[i].element
          keywords == keywordsOf(res.elementDescription)
          Always(kw) == TRUE
          IdIs(kw) == el.id /= <<>> /\ toLowerCase(el.id) = kw
          InTestId(kw) == el.testId /= <<>> /\ includes(toLowerCase(el.testId), kw)
          InLabel(kw) == el.ariaLabel /= <<>> /\ includes(toLowerCase(el.ariaLabel), kw)
          InText(kw) == el.text /= <<>> /\ includes(toLowerCase(el.text), kw)
          InPlaceholder(kw) ==
            el.placeholder /= <<>> /\ includes(toLowerCase(el.placeholder), kw)
      IN res.scored[i].score =
           BonusCount(el, keywords, Always)
           + 3 * BonusCount(el, keywords, IdIs)
           + 3 * BonusCount(el, keywords, InTestId)
           + 2 * BonusCount(el, keywords, InLabel)
           + 2 * BonusCount(el, keywords, InText)
           + 2 * BonusCount(el, keywords, InPlaceholder)

\* 'submit button' against the button with id 'submit-btn' and text 'Submit':
\* 1 + 2 for 'submit', 1 for 'button', and no id bonus
ScoreIsSumOfBonusesWitness ==
  /\ res.op = "get_locators" /\ ~res.threw
  /\ res.elementDescription = <<"s", "u", "b", "m", "i", "t", " ", "b", "u", "t", "t", "o", "n">>
  /\ \E i \in DOMAIN res.scored :
       /\ res.scored[i].element.id = <<"s", "u", "b", "m", "i", "t", "-", "b", "t", "n">>
       /\ res.scored[i].element.text = <<"S", "u", "b", "m", "i", "t">>
       /\ res.scored[i].score = 4

\* C5: every ValidationResult has isValid = (matchCount > 0) and
\* isUnique = (matchCount = 1).
CardinalityConsistency ==
  (res.op = "validate_locator" /\ ~res.threw) =>
    /\ res.value.isValid = (res.value.matchCount > 0)
    /\ res.value.isUnique = (res.value.matchCount = 1)

\* a locator that resolved to several elements: valid and not unique
CardinalityConsistencyWitness ==
  /\ res.op = "validate_locator" /\ ~res.threw
  /\ res.resolved
  /\ res.value.matchCount > 1
  /\ res.value.isValid /\ ~res.value.isUnique

\* the last call is a validation in which parsing or resolving threw
ResolveThrew ==
  res.op = "validate_locator" /\ "resolved" \in DOMAIN res /\ ~res.resolved

\* C6: when parsing or resolving throws, validateLocator returns, with
\* isValid false, matchCount 0, isUnique false and the message of the error
\* in a suggestion.
ResolveErrorIsReturned ==
  ResolveThrew =>
    /\ ~res.threw
    /\ res.value.isValid = FALSE
    /\ res.value.matchCount = 0
    /\ res.value.isUnique = FALSE
    /\ \E i \in DOMAIN res.value.suggestions :
         includes(res.value.suggestions[i], res.message)

ResolveErrorIsReturnedWitness ==
  /\ ResolveThrew
  /\ ~res.threw
  /\ res.value.suggestions /= <<>>

\* C7: with n the elements left by the type filter, analyze_page reports
\* min(n, 50) elements, truncated iff n > 50, and the reported elements are
\* those of the first 50 filtered elements, in extraction order.
ReportIsCapped ==
  (res.op = "analyze_page" /\ ~res.threw) =>
    LET n == Len(res.filtered) IN
    /\ res.value.returnedElements = Len(res.value.elements)
    /\ res.value.returnedElements = Min(n, 50)
    /\ res.value.truncated = (n > 50)
    /\ \A k \in DOMAIN res.value.elements :
         res.value.elements[k] = PageElementOf(res.filtered[k])

\* 75 qualifying elements: 50 returned, truncated
ReportIsCappedWitness ==
  /\ res.op = "analyze_page" /\ ~res.threw
  /\ Len(res.filtered) = 75
  /\ res.value.returnedElements = 50
  /\ res.value.truncated

\* C8: totalElements is the number of elements left by the filter, so that
\* truncated = (totalElements > 50) and returnedElements = min(totalElements, 50).
TotalIsFilteredCount ==
  (res.op = "analyze_page" /\ ~res.threw) =>
    /\ res.value.totalElements = Len(res.filtered)
    /\ res.value.truncated = (res.value.totalElements > 50)
    /\ res.value.returnedElements = Min(res.value.totalElements, 50)

\* the element get_locators synthesized for has a test id, a role and an aria-label
HasTestIdRoleAndLabel(el) ==
  /\ el.testId /= <<>>
  /\ el.ariaLabel /= <<>>
  /\ (el.role /= <<>> \/ inferRole(el) /= <<>>)

\* C9: for an element with a test id, a role with a name and an aria-label,
\* get_locators ranks the testId candidate (98) first, the role candidate (95)
\* second, the label candidate third, and recommends the testId expression.
TestIdRoleLabelOrder ==
  (res.op = "get_locators" /\ ~res.threw /\ Len(res.elements) > 0
     /\ HasTestIdRoleAndLabel(res.elements[1])) =>
    /\ Len(res.value.locators) >= 3
    /\ res.value.locators[1].type = "testId"
    /\ res.value.locators[1].reliability = 98
    /\ res.value.locators[2].type = "role"
    /\ res.value.locators[2].reliability = 95
    /\ res.value.locators[3].type = "label"
    /\ res.value.recommended = <<"g", "e", "t", "B", "y", "T", "e", "s", "t", "I", "d", "(", "'">> \o res.elements[1].testId \o <<"'", ")">>
    /\ res.value.recommended = res.value.locators[1].locator

\* such an element that also has an id, whose candidate ties with the label
TestIdRoleLabelOrderWitness ==
  /\ res.op = "get_locators" /\ ~res.threw /\ Len(res.elements) > 0
  /\ HasTestIdRoleAndLabel(res.elements[1])
  /\ res.elements[1].id /= <<>>
  /\ res.value.recommended = <<"g", "e", "t", "B", "y", "T", "e", "s", "t", "I", "d", "(", "'", "s", "a", "v", "e", "-", "b", "t", "n", "'", ")">>

\* all candidates of one analyze_page result
ReportedCandidates ==
  UNION {Range(res.value.elements[i].locators) : i \in DOMAIN res.value.elements}

\* the candidate is a role locator with a name option
HasNameOption(c) ==
  /\ Len(c.locator) >= 4
  /\ SubSeq(c.locator, Len(c.locator) - 3, Len(c.locator)) = <<"'", " ", "}", ")">>

\* C10 as stated: two candidates with the same kind carry the same reliability.
KindDeterminesReliability ==
  (res.op = "analyze_page" /\ ~res.threw) =>
    \A a, b \in ReportedCandidates :
      a.type = b.type => a.reliability = b.reliability

\* C10 as amended: two candidates of analyze_page with the same kind carry the
\* same reliability, unless they are role candidates of which one has a name
\* (95) and the other is bare (70).
KindAndNameDetermineReliability ==
  (res.op = "analyze_page" /\ ~res.threw) =>
    \A a, b \in ReportedCandidates :
      /\ (a.type = b.type /\ (a.type = "role" => HasNameOption(a) = HasNameOption(b)))
           => a.reliability = b.reliability
      /\ a.type = "role" => a.reliability = (IF HasNameOption(a) THEN 95 ELSE 70)

\* one report with a named role, a bare role and two placeholder candidates
KindAndNameDetermineReliabilityWitness ==
  /\ res.op = "analyze_page" /\ ~res.threw
  /\ \E a, b \in ReportedCandidates :
       /\ a.type = "role" /\ b.type = "role"
       /\ HasNameOption(a) /\ ~HasNameOption(b)
       /\ a.reliability = 95 /\ b.reliability = 70
  /\ \E a, b \in ReportedCandidates :
       a.type = "placeholder" /\ b.type = "placeholder" /\ a /= b

\* the score the matcher gave an extracted element
ScoreOf(el) == res.scored[CHOOSE i \in DOMAIN res.scored : res.scored[i].element = el].score

\* the position of an element in the extraction order
ExtractionIndex(el) == CHOOSE i \in DOMAIN res.scored : res.scored[i].element = el

\* C11: findMatchingElements returns the elements of score above 0 in
\* non-increasing score order, elements of equal score in extraction order;
\* get_locators synthesizes for the first of them and reports their number as
\* matchedElements.
MatchOrder ==
  (res.op = "get_locators" /\ ~res.threw) =>
    /\ Range(res.elements) =
         {res.scored[i].element : i \in {j \in DOMAIN res.scored : res.scored[j].score > 0}}
    /\ Len(res.elements) =
         Cardinality({j \in DOMAIN res.scored : res.scored[j].score > 0})
    /\ \A k \in 1..(Len(res.elements) - 1) :
         \/ ScoreOf(res.elements[k]) > ScoreOf(res.elements[k + 1])
         \/ /\ ScoreOf(res.elements[k]) = ScoreOf(res.elements[k + 1])
            /\ ExtractionIndex(res.elements[k]) < ExtractionIndex(res.elements[k + 1])
    /\ res.value.matchedElements = Len(res.elements)
    /\ Len(res.elements) > 0 =>
         /\ res.value.locators =
              slice(rankLocators(GetLocatorsTool_generateLocators(res.elements[1])),
                    MAX_LOCATORS)
         /\ res.value.alternativeSelectors.xpath = res.elements[1].xpath
         /\ res.value.selenium.all = generateSeleniumLocators(res.elements[1])

\* three or more matches, the best of them not the first extracted, and two
\* neighbours of equal score
MatchOrderWitness ==
  /\ res.op = "get_locators" /\ ~res.threw
  /\ Len(res.elements) >= 3
  /\ ExtractionIndex(res.elements[1]) > 1
  /\ ScoreOf(res.elements[1]) > ScoreOf(res.elements[2])
  /\ \E k \in 1..(Len(res.elements) - 1) :
       ScoreOf(res.elements[k]) = ScoreOf(res.elements[k + 1])
  /\ res.value.matchedElements = Len(res.elements)

\* C12: validateLocator returns no suggestion exactly when matchCount = 1; a
\* failed resolution returns a suggestion; a locator for an id the document
\* lacks gives isValid false, matchCount 0, isUnique false and a suggestion.
SuggestionsIffNotUnique ==
  (res.op = "validate_locator" /\ ~res.threw) =>
    /\ (res.value.suggestions = <<>>) <=> (res.value.matchCount = 1)
    /\ ~res.resolved => res.value.suggestions /= <<>>
    /\ (/\ res.operation.kind = "locator"
        /\ IsIdSelector(res.operation.value)
        /\ \A i \in DOMAIN page : <<"#">> \o page[i].id /= res.operation.value)
         => /\ res.value.isValid = FALSE
            /\ res.value.matchCount = 0
            /\ res.value.isUnique = FALSE
            /\ res.value.suggestions /= <<>>

\* locator('#nonexistent') validated on a document that has elements, none
\* of them with that id
SuggestionsIffNotUniqueWitness ==
  /\ res.op = "validate_locator" /\ ~res.threw
  /\ res.locatorStr = <<"l", "o", "c", "a", "t", "o", "r", "(", "'", "#", "n", "o", "n", "e", "x", "i", "s", "t", "e", "n", "t", "'", ")">>
  /\ page /= <<>>
  /\ res.resolved
  /\ res.value.matchCount = 0
  /\ Len(res.value.suggestions) = 2

\* the argument X of a locator string of the form fn('X'), <<>> if it has
\* another form
CallArgument(str, fn) ==
  LET inner == SubSeq(str, Len(fn) + 3, Len(str) - 2)
  IN IF str = fn \o <<"(", "'">> \o inner \o <<"'", ")">> /\ "'" \notin Range(inner)
       THEN inner ELSE <<>>

\* a locator string of the form getByRole('r') or getByRole('r', { name: 'n' })
IsRoleCall(str) ==
  \/ CallArgument(str, <<"g", "e", "t", "B", "y", "R", "o", "l", "e">>) /= <<>>
  \/ /\ startsWith(str, <<"g", "e", "t", "B", "y", "R", "o", "l", "e", "(", "'">>)
     /\ includes(str, <<"'", ",", " ", "{", " ", "n", "a", "m", "e", ":", " ", "'">>)
     /\ HasAt(str, Len(str) - 3, <<"'", " ", "}", ")">>)

\* the call patterns a locator expression is matched against, with their kind
CallPatterns ==
  {[fn |-> <<"g", "e", "t", "B", "y", "T", "e", "s", "t", "I", "d">>, kind |-> "testId"],
   [fn |-> <<"g", "e", "t", "B", "y", "T", "e", "x", "t">>, kind |-> "text"],
   [fn |-> <<"g", "e", "t", "B", "y", "P", "l", "a", "c", "e", "h", "o", "l", "d", "e", "r">>, kind |-> "placeholder"],
   [fn |-> <<"g", "e", "t", "B", "y", "L", "a", "b", "e", "l">>, kind |-> "label"],
   [fn |-> <<"g", "e", "t", "B", "y", "A", "l", "t", "T", "e", "x", "t">>, kind |-> "altText"]}

\* C13: a locator expression is mapped to the operation of the call pattern
\* it matches among testId, text, role, placeholder, label and alt-text, and
\* goes to the driver unchanged as a raw selector only when it matches none.
ParsesByCallPattern ==
  (res.op \in {"validate_locator", "getLocator"} /\ ~res.threw) =>
    /\ \A p \in CallPatterns :
         CallArgument(res.locatorStr, p.fn) /= <<>>
           => /\ res.operation.kind = p.kind
              /\ res.operation.value = CallArgument(res.locatorStr, p.fn)
    /\ IsRoleCall(res.locatorStr) => res.operation.kind = "role"
    /\ (res.operation.kind = "locator" /\ res.operation.value = res.locatorStr)
         => /\ ~IsRoleCall(res.locatorStr)
            /\ \A p \in CallPatterns : CallArgument(res.locatorStr, p.fn) = <<>>

\* C13 for RunTestTool.getLocator alone, which has the label and alt-text
\* patterns
GetLocatorParsesByCallPattern ==
  res.op = "getLocator" => ParsesByCallPattern

\* get_locators went past the navigation and the matcher found nothing
NothingMatched ==
  res.op = "get_locators" /\ "elements" \in DOMAIN res /\ res.elements = <<>>

\* C14: when the description matches no element, get_locators returns (it
\* does not throw) matchedElements 0, no locators, empty playwright, selenium
\* and alternativeSelectors fields, and an explanatory recommended string.
NoMatchIsReturned ==
  NothingMatched =>
    /\ ~res.threw
    /\ res.value.matchedElements = 0
    /\ res.value.locators = <<>>
    /\ res.value.playwright = [recommended |-> <<>>, all |-> <<>>]
    /\ res.value.selenium.all = <<>>
    /\ res.value.selenium.recommended = [java |-> <<>>, python |-> <<>>, csharp |-> <<>>]
    /\ res.value.alternativeSelectors = [css |-> <<>>, xpath |-> <<>>]
    /\ includes(res.value.recommended, <<"N", "o", " ", "m", "a", "t", "c", "h", "i", "n", "g", " ", "e", "l", "e", "m", "e", "n", "t", "s", " ", "f", "o", "u", "n", "d">>)

\* a description that occurs in none of the elements the page has
NoMatchIsReturnedWitness ==
  /\ NothingMatched
  /\ Len(res.scored) > 0
  /\ res.elementDescription = <<"z", "z", "z">>
  /\ res.value.matchedElements = 0

\* a synthesizer of the two tools returned a candidate of the kind and score
Emits(kind, reliability) ==
  \E i \in DOMAIN res.locators :
     res.locators[i].type = kind /\ res.locators[i].reliability = reliability

\* the role of an element, explicit or inferred, and its accessible name
RoleOf(el) == IF el.role /= <<>> THEN el.role ELSE inferRole(el)

NameOf(el) == FirstPresent(el.ariaLabel, el.text, el.title)

\* C15: dialect-A synthesis emits a candidate of a kind exactly when the
\* precondition of the kind holds: testId, role with name (95), bare role
\* (70), label, placeholder, text, id, name (80), css, and xpath always.
EmitsExactlyByPrecondition ==
  (res.op = "generateLocators" /\ res.who \in {"GetLocatorsTool", "AnalyzePageTool"}) =>
    LET el == res.el IN
    /\ Emits("testId", 98) <=> el.testId /= <<>>
    /\ Emits("role", 95) <=> (RoleOf(el) /= <<>> /\ NameOf(el) /= <<>>)
    /\ Emits("role", 70) <=> (RoleOf(el) /= <<>> /\ NameOf(el) = <<>>)
    /\ Emits("label", 90) <=> el.ariaLabel /= <<>>
    /\ Emits("placeholder", 85) <=> el.placeholder /= <<>>
    /\ Emits("text", 75) <=> (el.text /= <<>> /\ el.tagName \notin {<<"i", "n", "p", "u", "t">>, <<"t", "e", "x", "t", "a", "r", "e", "a">>})
    /\ Emits("id", 90) <=> el.id /= <<>>
    /\ Emits("name", 80) <=> el.name /= <<>>
    /\ Emits("css", 60) <=> el.selector /= el.tagName
    /\ Emits("xpath", 40)

\* a character of an expression is escaped when an odd number of
\* backslashes stands right before it
IsEscaped(s, i) ==
  LET before == {j \in 1..(i - 1) : s[j] /= "\\"}
      last == IF before = {} THEN 0 ELSE CHOOSE j \in before : \A k \in before : k <= j
  IN (i - 1 - last) % 2 = 1

\* the single quotes that open or close a string literal of the expression
LiteralQuotes(s) == {i \in DOMAIN s : s[i] = "'" /\ ~IsEscaped(s, i)}

\* the expression read as the script it is: whether it ends outside a string
\* literal, and the length of its longest literal
ScanLiterals(s) ==
  LET quotes == LiteralQuotes(s)
      Rank(i) == Cardinality({j \in quotes : j <= i})
      opening == {i \in quotes : Rank(i) % 2 = 1 /\ Rank(i) < Cardinality(quotes)}
      Closing(i) == CHOOSE j \in quotes : Rank(j) = Rank(i) + 1
      lengths == {Closing(i) - i - 1 : i \in opening}
  IN [closed |-> Cardinality(quotes) % 2 = 0,
      longest |-> IF lengths = {} THEN 0
                  ELSE CHOOSE n \in lengths : \A m \in lengths : m <= n]

\* the candidates the last tool call returned
ReturnedCandidates ==
  IF res.op = "get_locators" /\ ~res.threw THEN Range(res.value.locators)
  ELSE IF res.op = "analyze_page" /\ ~res.threw THEN ReportedCandidates
  ELSE {}

\* the kinds whose expression interpolates a literal text in single quotes
LiteralKinds == {"testId", "role", "label", "placeholder", "text", "id", "name"}

\* C16: every literal interpolated into a dialect-A expression is escaped and
\* at most 100 characters long, and the expression is valid: it has no
\* unescaped single quote inside a literal and no escape cut in half, so it
\* ends with its last literal closed and the call's closing parenthesis.
LiteralsEscapedAndBounded ==
  \A c \in ReturnedCandidates :
    c.type \in LiteralKinds =>
      LET scan == ScanLiterals(c.locator)
      IN /\ scan.closed
         /\ scan.longest <= MAX_TEXT_LENGTH
         /\ c.locator[Len(c.locator)] = ")"

\* what the extractor returned to the last tool call
Extracted ==
  IF res.op = "analyze_page" /\ ~res.threw THEN res.allElements
  ELSE IF res.op = "get_locators" /\ ~res.threw
    THEN [i \in DOMAIN res.scored |-> res.scored[i].element]
  ELSE <<>>

\* the nodes of the page that match a selector of the list
MatchingNodes ==
  {i \in DOMAIN page :
     \E k \in DOMAIN interactiveSelectors : MatchesSelector(page[i], interactiveSelectors[k])}

\* the first selector of the list a node matches
FirstSelector(i) ==
  CHOOSE k \in DOMAIN interactiveSelectors :
    /\ MatchesSelector(page[i], interactiveSelectors[k])
    /\ \A j \in 1..(k - 1) : ~MatchesSelector(page[i], interactiveSelectors[j])

\* C17: the extractor returns every visible node that matches a selector
\* exactly once, ordered by the first selector the node matches and, within
\* one selector, by document order.
ExtractedOnceInFirstMatchOrder ==
  (res.op \in {"analyze_page", "get_locators"} /\ ~res.threw) =>
    LET info == [i \in DOMAIN page |-> ElementInfoOf(page, i)]
        visible == {i \in MatchingNodes : ~IsHidden(page[i])}
        NodeOf(el) == CHOOSE i \in DOMAIN page : info[i] = el
    IN /\ Len(Extracted) = Cardinality(visible)
       /\ Range(Extracted) = {info[i] : i \in visible}
       /\ \A k \in 1..(Len(Extracted) - 1) :
            LET a == NodeOf(Extracted[k])
                b == NodeOf(Extracted[k + 1])
            IN \/ FirstSelector(a) < FirstSelector(b)
               \/ FirstSelector(a) = FirstSelector(b) /\ a < b

\* a page with a node two selectors match, a hidden node, and a node that is
\* extracted ahead of one that precedes it in the document
ExtractedOnceInFirstMatchOrderWitness ==
  /\ res.op \in {"analyze_page", "get_locators"} /\ ~res.threw
  /\ Len(Extracted) >= 3
  /\ \E i \in MatchingNodes :
       Cardinality({k \in DOMAIN interactiveSelectors :
                      MatchesSelector(page[i], interactiveSelectors[k])}) > 1
  /\ \E i \in MatchingNodes : IsHidden(page[i])
  /\ \E i, j \in MatchingNodes :
       /\ i < j /\ ~IsHidden(page[i]) /\ ~IsHidden(page[j])
       /\ \E k \in DOMAIN Extracted :
            /\ Extracted[k] = ElementInfoOf(page, j)
            /\ \E m \in (k + 1)..Len(Extracted) : Extracted[m] = ElementInfoOf(page, i)

\* the tab index attribute holds a number that is not negative
IsNonNegative(tabindex) == tabindex /= <<>> /\ \A i \in DOMAIN tabindex : tabindex[i] \in Range(DigitChars)

\* the closed selector set as the claim words it
IsInteractive(n) ==
  \/ n.tagName \in {<<"B", "U", "T", "T", "O", "N">>, <<"I", "N", "P", "U", "T">>, <<"S", "E", "L", "E", "C", "T">>, <<"T", "E", "X", "T", "A", "R", "E", "A">>}
  \/ n.tagName = <<"A">> /\ n.href /= <<>>
  \/ n.role \in {<<"b", "u", "t", "t", "o", "n">>, <<"l", "i", "n", "k">>, <<"t", "e", "x", "t", "b", "o", "x">>, <<"c", "h", "e", "c", "k", "b", "o", "x">>, <<"r", "a", "d", "i", "o">>, <<"c", "o", "m", "b", "o", "b", "o", "x">>,
                 <<"m", "e", "n", "u", "i", "t", "e", "m">>, <<"t", "a", "b">>}
  \/ n.onclick
  \/ IsNonNegative(n.tabindex)

\* the visibility rule as the claim words it
IsExcluded(n) ==
  n.width = 0 \/ n.height = 0 \/ n.display = "none" \/ n.visibility = "hidden"

\* C18: a node is in the extractor's output iff it matches the closed
\* selector set (button, anchor with href, input, select, textarea, one of
\* eight roles, click handler, non-negative tab index) and the visibility
\* rule does not exclude it; a disabled element is not excluded.
ExtractedIffInteractiveAndVisible ==
  (res.op \in {"analyze_page", "get_locators"} /\ ~res.threw) =>
    \A i \in DOMAIN page :
      (ElementInfoOf(page, i) \in Range(Extracted))
        <=> (IsInteractive(page[i]) /\ ~IsExcluded(page[i]))

\* the tool calls the handler has taken up and not yet answered
InFlight == {c \in CallIds : Call(c).pc /= "idle"}

\* C19: at most one tool call is in flight on the shared session, and a call
\* that queried the document queried the document of the url it navigated to.
SessionIsSerialized ==
  /\ Cardinality(InFlight) <= 1
  /\ \A c \in CallIds : Call(c).pc = "respond" => Call(c).evaluated = Call(c).url

\* a call is inside BrowserManager.launch
Launching(c) == Call(c).pc \in {"awaitBrowser", "awaitContext", "awaitPage"}

\* C20: after a launch that failed, the session is reset: outside a launch
\* the BrowserManager never holds a browser without a page, the state in
\* which launch returns at once and getPage returns no page.
LaunchFailureResetsSession ==
  (\A c \in CallIds : ~Launching(c)) =>
    (session.browser /= 0 => session.page /= 0)


----------------------------------------------------------------------------
(* Navigation failure                                                      *)

NavigationFailed(c) == Call(c).error = "page.goto failed"

\* C21: a call whose navigation failed has issued page.goto exactly once, has
\* issued no document query, has nothing left to do but return the isError
\* response carrying the message of the error, and leaves the BrowserManager
\* with its browser, context and page for the next call.
NavigationFailureIsReturned ==
  \A c \in CallIds :
    NavigationFailed(c) =>
      /\ Call(c).pc = "error"
      /\ Call(c).gotos = 1
      /\ Call(c).evaluated = "none"
      /\ HandlerResponse(c) = [isError |-> TRUE, text |-> <<"Error: ", "page.goto failed">>]
      /\ session.browser /= 0 /\ session.context /= 0 /\ session.page /= 0

\* a second call's navigation has failed after a first call's did and was
\* answered
NavigationFailureIsReturnedWitness ==
  \E c \in CallIds :
    /\ NavigationFailed(c)
    /\ session.requests = 2
    /\ \A d \in CallIds \ {c} : Call(d).pc = "idle"

----------------------------------------------------------------------------
(* Test runs: the steps and the result                                     *)

\* the index of the first failed entry, 0 when there is none
FirstFailed(steps) ==
  IF \E k \in DOMAIN steps : steps[k].status = "failed"
    THEN CHOOSE k \in DOMAIN steps :
           /\ steps[k].status = "failed"
           /\ \A j \in 1..(k - 1) : steps[j].status /= "failed"
    ELSE 0

\* the entries of a result against the steps the run was given
StopsAtFirstFailure(input, result) ==
  LET f == FirstFailed(result.steps)
  IN /\ Len(result.steps) = Len(input)
     /\ \A k \in DOMAIN result.steps :
          /\ k <= Len(input) => result.steps[k].step = input[k].description
          /\ (f = 0 \/ k < f) => result.steps[k].status = "passed"
          /\ k = f => result.steps[k].error /= "undefined"
          /\ (f > 0 /\ k > f) =>
               (result.steps[k].status = "skipped" /\ result.steps[k].duration = 0)
     /\ f > 0 => result.screenshotPath \notin {"undefined", ""}

\* C22: a test run executes its steps in list order and stops at the first
\* step that fails: a step is executed only after all steps before it have
\* passed, and the result lists every input step in order, the failed one as
\* failed with its error, the later ones as skipped with duration 0, with a
\* failure screenshot.
StepsRunInOrderUntilFailure ==
  /\ \A r \in RunIds :
       /\ Run(r).pc = "step" =>
            /\ Run(r).i = Len(Run(r).stepResults) + 1
            /\ FirstFailed(Run(r).stepResults) = 0
       /\ Run(r).result.status /= "none" =>
            StopsAtFirstFailure(Run(r).steps, Run(r).result)
  /\ (res.op = "runTest" /\ ~res.threw) => StopsAtFirstFailure(res.input, res)

\* what the inspection tools share: the BrowserManager, its browser, context
\* and page, and the document the page shows
SharedSession ==
  [browserManager |-> session.browserManager,
   browser |-> session.browser,
   context |-> session.context,
   page |-> session.page,
   open |-> SharedHandle \in session.open,
   shown |-> session.shown[SharedHandle]]

\* C23: no step of run_test or generate_test changes the shared inspection
\* session; the browser a run launches is a new one of its own, and
\* generate_test changes nothing of the session and launches no browser.
RunsLeaveSessionUnchanged ==
  [][/\ SharedSession' = SharedSession
     /\ \A r \in RunIds :
          (Run(r).pc = "launch" /\ session'.runs[r].pc = "newContext") =>
            /\ session'.runTestTool.browser = r
            /\ r \notin session.open /\ r \in session'.open
            /\ r /= session.browser
     /\ (res = Idle /\ res'.op = "generate_test") => session' = session]_vars

\* a run has navigated its page and returned while the inspection session
\* was launched and showed a document
RunsLeaveSessionUnchangedWitness ==
  \E r \in RunIds :
    /\ Run(r).pc = "done"
    /\ Run(r).result.status = "passed"
    /\ Run(r).result.totalSteps >= 1
    /\ session.browser = SharedHandle
    /\ session.shown[SharedHandle] = <<"https://a.example">>
    /\ session.shown[r] /= <<"about:blank">>

----------------------------------------------------------------------------
(* The element type filter of analyze_page                                 *)

\* the elements a documented type name stands for
IsOfType(el, t) ==
  LET tag == toLowerCase(el.tagName)
  IN CASE t \in {<<"b", "u", "t", "t", "o", "n">>, <<"i", "n", "p", "u", "t">>, <<"s", "e", "l", "e", "c", "t">>, <<"t", "e", "x", "t", "a", "r", "e", "a">>} -> tag = t
       [] t = <<"l", "i", "n", "k">> -> tag = <<"a">>
       [] t \in {<<"c", "h", "e", "c", "k", "b", "o", "x">>, <<"r", "a", "d", "i", "o">>} -> tag = <<"i", "n", "p", "u", "t">> /\ toLowerCase(el.type) = t
       [] OTHER -> FALSE

\* C24: with an elementTypes filter analyze_page keeps every extracted
\* element of each documented type it names (anchors for 'link', checkbox
\* inputs for 'checkbox'); with an empty filter it keeps every extracted element.
FilterKeepsDocumentedTypes ==
  (res.op = "analyze_page" /\ ~res.threw) =>
    /\ res.elementTypes = <<>> => res.filtered = res.allElements
    /\ \A k \in DOMAIN res.elementTypes, i \in DOMAIN res.allElements :
         IsOfType(res.allElements[i], toLowerCase(res.elementTypes[k])) =>
           \E j \in DOMAIN res.filtered : res.filtered[j] = res.allElements[i]

----------------------------------------------------------------------------
(* Two test runs on the one RunTestTool                                    *)

\* the urls the page of run r can show by the steps of run r
OwnUrls(r) ==
  {<<"about:blank">>}
    \cup {Run(r).steps[k].value :
            k \in {j \in DOMAIN Run(r).steps : Run(r).steps[j].action = "navigate"}}

\* C25: for every interleaving of two execute calls, a run acts only on the
\* page it created, no other run closes its browser while it executes steps,
\* its result reports the url of its own page, and the browser it launched
\* is closed when it returns.
RunsAreIsolated ==
  \A r \in RunIds :
    /\ Run(r).pc \in {"step", "failureShot", "successShot"} => Run(r).target = r
    /\ Run(r).pc = "step" => r \in session.open
    /\ (Run(r).result.status /= "none" /\ Run(r).i >= 1) =>
         Run(r).result.finalUrl \in OwnUrls(r)
    /\ (Run(r).result.status /= "none" /\ Run(r).i = 0) =>
         Run(r).result.finalUrl = <<"undefined">>
    /\ Run(r).pc = "done" => r \notin session.open

----------------------------------------------------------------------------
(* The browsers of the BrowserManager                                      *)

\* C26: the BrowserManager launches at most one browser, whatever calls
\* arrive while the launch is awaiting, and every browser launched is the
\* one it holds, so that close can reach it.
AtMostOneBrowser ==
  /\ Cardinality(session.launched) <= 1
  /\ \A b \in session.launched : b = session.browser

----------------------------------------------------------------------------
(* Generated locators through the parsers                                  *)

\* a string written as the body of a JavaScript literal in quotes q
JsQuote(v, q) == replaceAll(replaceAll(v, "\\", <<"\\", "\\">>), q, <<"\\", q>>)

\* the kind of driver operation a candidate of a type stands for
KindOf(type) == IF type \in {"id", "name", "css", "xpath"} THEN "locator" ELSE type

\* the expression of dialect A that stands for an operation
Render(type, op) ==
  CASE type = "testId" -> <<"g", "e", "t", "B", "y", "T", "e", "s", "t", "I", "d", "(", "'">> \o JsQuote(op.value, "'") \o <<"'", ")">>
    [] type = "label" -> <<"g", "e", "t", "B", "y", "L", "a", "b", "e", "l", "(", "'">> \o JsQuote(op.value, "'") \o <<"'", ")">>
    [] type = "placeholder" -> <<"g", "e", "t", "B", "y", "P", "l", "a", "c", "e", "h", "o", "l", "d", "e", "r", "(", "'">> \o JsQuote(op.value, "'") \o <<"'", ")">>
    [] type = "text" -> <<"g", "e", "t", "B", "y", "T", "e", "x", "t", "(", "'">> \o JsQuote(op.value, "'") \o <<"'", ")">>
    [] type = "role" ->
         IF op.name = <<>> THEN <<"g", "e", "t", "B", "y", "R", "o", "l", "e", "(", "'">> \o op.value \o <<"'", ")">>
         ELSE <<"g", "e", "t", "B", "y", "R", "o", "l", "e", "(", "'">> \o op.value \o <<"'", ",", " ", "{", " ", "n", "a", "m", "e", ":", " ", "'">> \o JsQuote(op.name, "'") \o <<"'", " ", "}", ")">>
    [] type = "xpath" -> <<"l", "o", "c", "a", "t", "o", "r", "(", "\"">> \o JsQuote(op.value, "\"") \o <<"\"", ")">>
    [] OTHER -> <<"l", "o", "c", "a", "t", "o", "r", "(", "'">> \o JsQuote(op.value, "'") \o <<"'", ")">>

\* a parser has read the candidate as the operation it was written for
RoundTrips(c, op) ==
  /\ op.kind = KindOf(c.type)
  /\ op.value /= c.locator
  /\ Render(c.type, op) = c.locator

\* C27: every locator expression that get_locators or analyze_page returns
\* is read by RunTestTool.getLocator and by LocatorEngine.parseLocatorString
\* as the kind and argument it was written for, never as a raw selector.
GeneratedLocatorsRoundTrip ==
  \A c \in ReturnedCandidates :
    /\ RoundTrips(c, getLocator(c.locator))
    /\ RoundTrips(c, parseLocatorString(c.locator))

----------------------------------------------------------------------------
(* The counts of a test result                                             *)

\* C28: in every result of RunTestTool.execute the status is 'passed' iff
\* every entry of steps passed and 'failed' iff a step failed, totalSteps is
\* the number of input steps, the passed, failed and skipped entries add up
\* to it, and at most one step failed; also when the launch or a screenshot
\* fails.
ResultIsConsistent ==
  \A r \in RunIds :
    LET result == Run(r).result
    IN result.status /= "none" =>
         /\ (result.status = "passed") <=>
              (\A k \in DOMAIN result.steps : result.steps[k].status = "passed")
         /\ (result.status = "failed") <=> (result.failedSteps >= 1)
         /\ result.totalSteps = Len(Run(r).steps)
         /\ result.passedSteps + result.failedSteps + Count(result.steps, "skipped")
              = result.totalSteps
         /\ result.failedSteps <= 1

----------------------------------------------------------------------------
(* The property names of a page object                                     *)

\* C29: after deduplicateProperties the property names are pairwise
\* distinct and the number of properties is unchanged.
PropertyNamesAreDistinct ==
  res.op = "deduplicateProperties" =>
    /\ Len(res.uniqueProperties) = Len(res.properties)
    /\ \A i, j \in DOMAIN res.uniqueProperties :
         i /= j => res.uniqueProperties[i].propertyName /= res.uniqueProperties[j].propertyName

----------------------------------------------------------------------------
(* The empty keyword                                                       *)

\* the description is empty or has leading or trailing whitespace
IsPadded(description) ==
  \/ description = <<>>
  \/ IsWhitespace(description[1])
  \/ IsWhitespace(description[Len(description)])

\* C30: an empty or padded description splits into keywords one of which
\* is empty; the empty keyword is in every searchable text, so both
\* matchers return every extracted element, GetLocatorsTool's with a score
\* of at least 1 each, and no-match is reported only for a page with no
\* extracted element.
EmptyKeywordMatchesAll ==
  (res.op \in {"get_locators", "LocatorEngine.getLocators"} /\ ~res.threw
     /\ IsPadded(res.elementDescription)) =>
    /\ \E k \in DOMAIN keywordsOf(res.elementDescription) :
         keywordsOf(res.elementDescription)[k] = <<>>
    /\ res.op = "get_locators" =>
         /\ \A i \in DOMAIN res.scored :
              /\ res.scored[i].score >= 1
              /\ \E j \in DOMAIN res.elements : res.elements[j] = res.scored[i].element
         /\ Len(res.elements) = Len(res.scored)
         /\ (res.value.matchedElements = 0) <=> (res.scored = <<>>)
    /\ res.op = "LocatorEngine.getLocators" =>
         /\ res.elements = res.allElements
         /\ (res.value.recommended = <<"N", "o", " ", "m", "a", "t", "c", "h", "i", "n", "g", " ", "e", "l", "e", "m", "e", "n", "t", "s", " ", "f", "o", "u", "n", "d">>) <=> (res.allElements = <<>>)

\* get_locators was asked for " search" and returned several elements, one
\* of them without the word in its searchable text
EmptyKeywordMatchesAllWitness ==
  /\ res.op = "get_locators" /\ ~res.threw
  /\ res.elementDescription = <<" ", "s", "e", "a", "r", "c", "h">>
  /\ Len(res.elements) >= 2
  /\ \E j \in DOMAIN res.elements : ~includes(searchTextOf(res.elements[j]), <<"s", "e", "a", "r", "c", "h">>)
====
